---------------------------- MODULE Spec2Model ----------------------------
(***************************************************************************)
(* A model of the managed code generator of react-native-windows:          *)
(* CodeAnalyzer.AnalyzeAndFindTypes (module extraction, proactive enum     *)
(* registration, the serializable-type closure) followed by                *)
(* CodeGenerator.Generate.  The compilation that is analysed is the input: *)
(* a catalog of declared types, one of which (TestClass) carries a         *)
(* [ReactModule] attribute and a list of members that vary.                *)
(***************************************************************************)
EXTENDS Integers, Sequences, FiniteSets, Bags, TLC

(***************************************************************************)
(* Bounds of the model.                                                    *)
(***************************************************************************)
\* The largest number of members declared by the varying module type.
MaxMembers == 2

\* The largest number of methods declared by the static class Extensions.
MaxExtensions == 2

\* The largest number of diagnostics the compilation reports.
MaxDiagnostics == 1

\* The largest number of required assemblies and types that do not resolve.
MaxMissing == 1

\* The largest number of source paths, and of reference paths, in the options.
MaxFiles == 2

\* The largest ConcurrencyLevel a caller sets.
MaxConcurrencyLevel == 2

\* DataflowBlockOptions.Unbounded, the default of ConcurrencyLevel.
Unbounded == -1

\* `null` of the C# code, for string values.
NULL == "<null>"

Range(s) == {s[i] : i \in DOMAIN s}

Min(S) == CHOOSE x \in S : \A y \in S : x <= y

\* All sequences of distinct elements of S of length at most n.
RECURSIVE Concat(_)
Concat(seqs) == IF seqs = <<>> THEN <<>> ELSE Head(seqs) \o Concat(Tail(seqs))

DistinctSeq(S, n) ==
  {s \in UNION {[1..k -> S] : k \in 0..n} :
     \A i, j \in DOMAIN s : i # j => s[i] # s[j]}

(***************************************************************************)
(* The type symbols of the compilation (ITypeSymbol).  `local` says that   *)
(* the type's ContainingAssembly is the compilation's own assembly,        *)
(* `named` that it is an INamedTypeSymbol, `invoke` holds the              *)
(* DelegateInvokeMethod of a delegate type (its return type and its        *)
(* parameter types) and is empty for every other type.                     *)
(***************************************************************************)
TypeSymbol(kind, named, local, invoke) ==
  [TypeKind |-> kind, named |-> named, local |-> local, invoke |-> invoke]

InvokeMethod(ret, params) == <<[ReturnType |-> ret, Parameters |-> params]>>

TypeSymbols ==
  [ void      |-> TypeSymbol("Struct", TRUE, FALSE, <<>>),
    int       |-> TypeSymbol("Struct", TRUE, FALSE, <<>>),
    intArray  |-> TypeSymbol("Array", FALSE, FALSE, <<>>),
    \* System.Action<int> and System.Func<int>: delegates of a library.
    Action    |-> TypeSymbol("Delegate", TRUE, FALSE, InvokeMethod("void", <<"int">>)),
    Func      |-> TypeSymbol("Delegate", TRUE, FALSE, InvokeMethod("int", <<>>)),
    \* IReactPromise<int>, ReactContext, ReactConstantProvider of the library.
    Promise   |-> TypeSymbol("Interface", TRUE, FALSE, <<>>),
    ReactContext |-> TypeSymbol("Class", TRUE, FALSE, <<>>),
    ReactConstantProvider |-> TypeSymbol("Struct", TRUE, FALSE, <<>>),
    \* The types the compilation declares itself.
    TestClass |-> TypeSymbol("Class", TRUE, TRUE, <<>>),
    Second    |-> TypeSymbol("Class", TRUE, TRUE, <<>>),
    E1        |-> TypeSymbol("Enum", TRUE, TRUE, <<>>),
    E2        |-> TypeSymbol("Enum", TRUE, TRUE, <<>>),
    C1        |-> TypeSymbol("Class", TRUE, TRUE, <<>>),
    S1        |-> TypeSymbol("Struct", TRUE, TRUE, <<>>),
    \* public static class Extensions
    Extensions |-> TypeSymbol("Class", TRUE, TRUE, <<>>),
    \* delegate void D1(C1 c, D1 next): a delegate whose signature leads back to it.
    D1        |-> TypeSymbol("Delegate", TRUE, TRUE, InvokeMethod("void", <<"C1", "D1">>)),
    \* delegate void D2(D2 next): a delegate that leads to nothing but itself.
    D2        |-> TypeSymbol("Delegate", TRUE, TRUE, InvokeMethod("void", <<"D2">>)),
    \* public abstract class A1 : IViewManager
    A1        |-> TypeSymbol("Class", TRUE, TRUE, <<>>) ]

\* INamedTypeSymbol and INamespaceSymbol as CollectTypes reads them: the
\* type members of a type, the type members and the namespace members of a
\* namespace.
NamedType(name, typeMembers) == [Name |-> name, TypeMembers |-> typeMembers]

Namespace(typeMembers, namespaceMembers) ==
  [TypeMembers |-> typeMembers, NamespaceMembers |-> namespaceMembers]

\* m_compilation.Assembly.GlobalNamespace: TestClass with its two nested
\* enums and C1 in the global namespace, the other types in a namespace
\* and in a namespace of that namespace.
GlobalNamespace ==
  Namespace(
    <<NamedType("TestClass", <<NamedType("E1", <<>>), NamedType("E2", <<>>)>>),
      NamedType("C1", <<>>)>>,
    <<Namespace(
        <<NamedType("S1", <<>>), NamedType("D1", <<>>), NamedType("D2", <<>>)>>,
        <<Namespace(
            <<NamedType("Extensions", <<>>), NamedType("Second", <<>>),
              NamedType("A1", <<>>)>>,
            <<>>)>>)>>)

\* The mutant of CollectTypesOfType that leaves the nested types out.
CollectTypesOfType_NoNested(type) == <<type.Name>>

\* CollectTypes(INamedTypeSymbol, result): the type, then its nested types.
RECURSIVE CollectTypesOfType(_)
CollectTypesOfType(type) ==
  <<type.Name>>
    \o Concat([i \in DOMAIN type.TypeMembers |-> CollectTypesOfType(type.TypeMembers[i])])

\* CollectTypes(INamespaceSymbol, result): the types of the namespace, then
\* the namespaces of the namespace.
RECURSIVE CollectTypes(_)
CollectTypes(namespaceSymbol) ==
  Concat([i \in DOMAIN namespaceSymbol.TypeMembers |->
            CollectTypesOfType(namespaceSymbol.TypeMembers[i])])
    \o Concat([i \in DOMAIN namespaceSymbol.NamespaceMembers |->
                 CollectTypes(namespaceSymbol.NamespaceMembers[i])])

\* GetAllTypes
GetAllTypes == CollectTypes(GlobalNamespace)

\* The declared types of the compilation, in the order GetAllTypes returns them.
Catalog == GetAllTypes

(***************************************************************************)
(* Attribute data: the attribute class, the constructor (positional)       *)
(* arguments and the named arguments in source order.                      *)
(***************************************************************************)
Attr(cls, ctor, named) ==
  [AttributeClass |-> cls, ConstructorArguments |-> ctor, NamedArguments |-> named]

Named(key, value) == [Key |-> key, Value |-> value]

\* The attribute lists the varying module type may carry.
ModuleAttrPool ==
  { <<>>,
    <<Attr("ReactModule", <<>>, <<>>)>>,
    <<Attr("ReactModule", <<"Pos">>, <<>>)>>,
    <<Attr("ReactModule", <<>>, <<Named("ModuleName", "Named")>>)>>,
    <<Attr("ReactModule", <<"Pos">>, <<Named("ModuleName", "Named")>>)>>,
    <<Attr("ReactModule", <<"Pos">>, <<Named("ModuleName", NULL)>>)>>,
    <<Attr("ReactModule", <<NULL>>, <<Named("EventEmitterName", "Emitter")>>)>>,
    <<Attr("ReactModule", <<"Pos">>,
           <<Named("EventEmitterName", "Emitter"), Named("ModuleName", "Named")>>)>>,
    <<Attr("ReactModule", <<"Pos">>, <<Named("Bogus", "x")>>)>>,
    <<Attr("ReactModule", <<>>,
           <<Named("ModuleName", "Named"), Named("Bogus", "x")>>)>> }

PlainModuleAttr == <<Attr("ReactModule", <<>>, <<>>)>>

(***************************************************************************)
(* Member symbols.  Kind is Method, Property, Field or Other (a member     *)
(* that is none of the three, such as a nested type).  Type is the return  *)
(* type of a method and the declared type of a property or field;          *)
(* GetMethod and SetMethod hold the accessibility of a property's          *)
(* accessors ("None" when the accessor is absent).                         *)
(***************************************************************************)
Method(name, attrs, access, ret, params) ==
  [Name |-> name, Kind |-> "Method", Attributes |-> attrs,
   DeclaredAccessibility |-> access, Type |-> ret, Parameters |-> params,
   GetMethod |-> "None", SetMethod |-> "None"]

Property(name, attrs, access, type, getter, setter) ==
  [Name |-> name, Kind |-> "Property", Attributes |-> attrs,
   DeclaredAccessibility |-> access, Type |-> type, Parameters |-> <<>>,
   GetMethod |-> getter, SetMethod |-> setter]

Field(name, attrs, access, type) ==
  [Name |-> name, Kind |-> "Field", Attributes |-> attrs,
   DeclaredAccessibility |-> access, Type |-> type, Parameters |-> <<>>,
   GetMethod |-> "None", SetMethod |-> "None"]

Marker(cls) == Attr(cls, <<>>, <<>>)

\* The members the varying module type may declare.
MemberPool ==
  { Method("getValue", <<Marker("ReactMethod")>>, "Public", "void", <<"Promise">>),
    Method("twoCb", <<Attr("ReactMethod", <<"two">>, <<>>)>>, "Public", "void",
           <<"int", "Action", "Action">>),
    Method("oneCb", <<Attr("ReactMethod", <<"pos">>, <<Named("MethodName", "one")>>)>>,
           "Internal", "void", <<"S1", "D1">>),
    Method("sync", <<Marker("ReactSyncMethod")>>, "Public", "E1", <<"int">>),
    Method("dual", <<Marker("ReactMethod"), Marker("ReactSyncMethod")>>, "Public",
           "C1", <<"intArray">>),
    Method("syncBogus", <<Marker("ReactMethod"),
                          Attr("ReactSyncMethod", <<>>, <<Named("Bogus", "x")>>)>>,
           "Public", "int", <<>>),
    Method("bogusSync", <<Attr("ReactMethod", <<>>, <<Named("Bogus", "x")>>),
                          Marker("ReactSyncMethod")>>, "Public", "int", <<>>),
    Method("init", <<Marker("ReactInitializer")>>, "Public", "void", <<"ReactContext">>),
    Method("initPrivate", <<Marker("ReactInitializer"), Marker("ReactConstantProvider")>>,
           "Private", "void", <<"ReactContext">>),
    Method("provide", <<Marker("ReactConstantProvider")>>, "Internal", "void",
           <<"ReactConstantProvider">>),
    Method("provideInt", <<Marker("ReactConstantProvider")>>, "Public", "int",
           <<"ReactConstantProvider">>),
    Method("initBad", <<Marker("ReactInitializer")>>, "Private", "int", <<>>),
    Method("initRet", <<Marker("ReactInitializer")>>, "Public", "int", <<"int", "int">>),
    Method("initTwo", <<Marker("ReactInitializer")>>, "Internal", "void",
           <<"ReactContext", "ReactContext">>),
    Method("provideCtx", <<Marker("ReactConstantProvider")>>, "Public", "void",
           <<"ReactContext">>),
    Method("helper", <<>>, "Public", "void", <<"C1">>),
    Field("constE1", <<Marker("ReactConstant")>>, "Public", "E1"),
    Property("constE2", <<Attr("ReactConstant", <<"two">>, <<>>)>>, "Internal", "E2",
             "Public", "None"),
    Field("constPrivate", <<Marker("ReactConstant"), Marker("ReactEvent")>>, "Private",
          "Action"),
    Property("constNoGet", <<Marker("ReactConstant")>>, "Public", "C1", "None", "Public"),
    Property("constHidden", <<Marker("ReactConstant")>>, "Private", "int", "Private",
             "Public"),
    Property("constNoGetEvent", <<Marker("ReactConstant"), Marker("ReactEvent")>>,
             "Public", "Action", "Private", "Public"),
    Property("constEvent", <<Marker("ReactConstant"), Marker("ReactEvent")>>, "Public",
             "Action", "Public", "Private"),
    Field("bogusConstFn", <<Attr("ReactConstant", <<>>, <<Named("Bogus", "x")>>),
                            Marker("ReactFunction")>>, "Public", "Action"),
    Property("evOk", <<Marker("ReactEvent")>>, "Public", "D1", "Public", "Public"),
    Field("evField", <<Attr("ReactEvent", <<"ev">>,
                            <<Named("EventEmitterName", "Em")>>)>>, "Internal", "Action"),
    Property("evNoSet", <<Marker("ReactEvent")>>, "Public", "Action", "Public", "None"),
    Property("evBogusNoSet", <<Attr("ReactEvent", <<>>, <<Named("Bogus", "x")>>)>>,
             "Public", "Action", "Public", "None"),
    Property("evFnNoSet", <<Marker("ReactEvent"), Marker("ReactFunction")>>, "Public",
             "Action", "Public", "Private"),
    Property("fnOk", <<Attr("ReactFunction", <<>>, <<Named("FunctionName", "fn"),
                                                      Named("ModuleName", "Mod")>>)>>,
             "Public", "Action", "Public", "Internal"),
    Property("fnPrivateNoSet", <<Marker("ReactFunction")>>, "Private", "int",
             "Public", "None"),
    Field("fnPrivate", <<Marker("ReactFunction")>>, "Private", "Action"),
    Field("fnPlain", <<Marker("ReactFunction")>>, "Public", "Action"),
    Field("fnInt", <<Marker("ReactFunction")>>, "Public", "int"),
    Field("evFunc", <<Marker("ReactEvent")>>, "Public", "Func"),
    Field("evSelf", <<Marker("ReactEvent")>>, "Public", "D2"),
    [Name |-> "Nested", Kind |-> "Other", Attributes |-> <<>>,
     DeclaredAccessibility |-> "Public", Type |-> "void", Parameters |-> <<>>,
     GetMethod |-> "None", SetMethod |-> "None"] }

MemberNames == {m.Name : m \in MemberPool}

\* The members of the second module type, which never varies.
SecondMembers ==
  << Method("ping", <<Marker("ReactMethod")>>, "Public", "void", <<>>) >>

\* IParameterSymbol: its type, its RefKind, and whether the type is an
\* ITypeParameterSymbol.
Parameter(type, refKind, isTypeParameter) ==
  [Type |-> type, RefKind |-> refKind, IsTypeParameter |-> isTypeParameter]

\* A method of the static class Extensions.
StaticMethod(name, isExtensionMethod, parameters) ==
  [Name |-> name, Kind |-> "Method", IsExtensionMethod |-> isExtensionMethod,
   Parameters |-> parameters]

\* The methods the static class Extensions may declare.
ExtensionPool ==
  { StaticMethod("ReadInt", TRUE, <<Parameter("JSValueReader", "None", FALSE),
                                    Parameter("int", "Out", FALSE)>>),
    StaticMethod("ReadInt2", TRUE, <<Parameter("JSValueReader", "None", FALSE),
                                     Parameter("int", "Out", FALSE)>>),
    StaticMethod("ReadS1", TRUE, <<Parameter("JSValueReader", "None", FALSE),
                                   Parameter("S1", "Out", FALSE)>>),
    StaticMethod("ReadNoOut", TRUE, <<Parameter("JSValueReader", "None", FALSE),
                                      Parameter("S1", "None", FALSE)>>),
    StaticMethod("ReadGeneric", TRUE, <<Parameter("JSValueReader", "None", FALSE),
                                        Parameter("T", "Out", TRUE)>>),
    StaticMethod("ReadThree", TRUE, <<Parameter("JSValueReader", "None", FALSE),
                                      Parameter("int", "Out", FALSE),
                                      Parameter("int", "None", FALSE)>>),
    StaticMethod("WriteInt", TRUE, <<Parameter("JSValueWriter", "None", FALSE),
                                     Parameter("int", "None", FALSE)>>),
    StaticMethod("WriteInt2", TRUE, <<Parameter("JSValueWriter", "None", FALSE),
                                      Parameter("int", "None", FALSE)>>),
    StaticMethod("WriteOut", TRUE, <<Parameter("JSValueWriter", "None", FALSE),
                                     Parameter("S1", "Out", FALSE)>>),
    StaticMethod("WriteGeneric", TRUE, <<Parameter("JSValueWriter", "None", FALSE),
                                         Parameter("T", "None", TRUE)>>),
    StaticMethod("WriteStatic", FALSE, <<Parameter("JSValueWriter", "None", FALSE),
                                         Parameter("int", "None", FALSE)>>),
    StaticMethod("Twice", TRUE, <<Parameter("int", "None", FALSE),
                                  Parameter("int", "Out", FALSE)>>) }

ExtensionNames == {m.Name : m \in ExtensionPool}

ExtensionSymbol(name) == CHOOSE m \in ExtensionPool : m.Name = name

\* INamedTypeSymbol.MightContainExtensionMethods of a declared type.
MightContainExtensionMethods(type) == type = "Extensions"

\* The member symbol of a name.
Symbol(name) == CHOOSE m \in MemberPool \cup Range(SecondMembers) : m.Name = name

\* INamedTypeSymbol.IsAbstract and AllInterfaces of the declared types.
IsAbstract(type) == type = "A1"

AllInterfaces(type) == IF type \in {"C1", "A1"} THEN {"IViewManager"} ELSE {}


(***************************************************************************)
(* The state.                                                              *)
(***************************************************************************)
VARIABLES
  moduleAttrs,     \* input: the attributes of TestClass
  members,         \* input: the names of the members of TestClass, as declared
  extensions,      \* input: the names of the methods of Extensions, as declared
  diagnostics,     \* input: the diagnostics the compilation reports
  missing,         \* input: the required assemblies and types that do not resolve
  ReactTypes,      \* CodeAnalyzer.ReactTypes (NULL: not set)
  exitCode,        \* what App.Run returned (empty: it did not return)
  m_errors,        \* CodeAnalyzer.m_errors, the diagnostic sink
  assembly,        \* the ReactAssembly under construction
  proceseedTypes,  \* the processed set of AnalyzeAndFindTypes
  module,          \* the ReactModule TryExtractModule is building (<<>>: none)
  worklist,        \* the pending calls of AddSerializableType, first one first
  thrown,          \* the exception that ended the analysis ("None": none)
  output,          \* what Generate returned (<<>>: nothing yet)
  options,         \* input: options.SourceFiles and options.References
  ConcurrencyLevel,      \* CodeAnalyzer.ConcurrencyLevel
  cancelled,             \* whether the cancellation token was signalled
  block,                 \* the ActionBlock of the load operation under way
  m_syntaxTrees,         \* CodeAnalyzer.m_syntaxTrees, a bag of source paths
  m_metadataReferences,  \* CodeAnalyzer.m_metadataReferences, a bag of paths
  pc,              \* the position of the run
  host             \* the ReactNativeHost

vars == <<moduleAttrs, members, extensions, diagnostics, missing, ReactTypes, exitCode,
          m_errors, assembly, proceseedTypes, module, worklist, thrown, output,
          options, ConcurrencyLevel, cancelled, block, m_syntaxTrees,
          m_metadataReferences, pc, host>>

input == <<moduleAttrs, members, extensions, diagnostics, missing>>

\* The variables of the code generator, which the host leaves alone.
analysis == <<moduleAttrs, members, extensions, diagnostics, missing, ReactTypes, exitCode,
              m_errors, assembly, proceseedTypes, module, worklist, thrown, output,
              options, ConcurrencyLevel, cancelled, block, m_syntaxTrees,
              m_metadataReferences, pc>>

\* The state of the loading of the sources and of the references.
loading == <<options, ConcurrencyLevel, cancelled, block, m_syntaxTrees,
             m_metadataReferences>>

\* index: the catalog index of the type being scanned, or the index of the
\* module being seeded; member: the index of the member being extracted.
Pc(phase, index, member, stage) ==
  [phase |-> phase, index |-> index, member |-> member, stage |-> stage]

\* ISymbol.GetAttributes of a declared type.
GetAttributes(type) ==
  IF type = "TestClass" THEN moduleAttrs
  ELSE IF type = "Second" THEN <<Attr("ReactModule", <<"Second">>, <<>>)>>
  ELSE <<>>

\* INamedTypeSymbol.GetMembers of a declared type, in declaration order.
GetMembers(type) ==
  IF type = "TestClass" THEN [i \in DOMAIN members |-> Symbol(members[i])]
  ELSE IF type = "Second" THEN SecondMembers
  ELSE IF type = "Extensions"
    THEN [i \in DOMAIN extensions |-> ExtensionSymbol(extensions[i])]
  ELSE <<>>

(***************************************************************************)
(* Helpers of CodeAnalyzer.                                                *)
(***************************************************************************)
\* The mutant of IsAccessible that accepts every accessibility.
IsAccessible_Any(accessibility) == TRUE

IsAccessible(accessibility) == accessibility \in {"Public", "Internal"}

\* FirstOrDefault over the attributes: <<>> when there is none of the class.
TryFindAttribute(attributes, attributeType) ==
  LET found == {i \in DOMAIN attributes : attributes[i].AttributeClass = attributeType}
  IN  IF found = {} THEN <<>> ELSE <<attributes[Min(found)]>>

\* Diagnostic.Create(descriptor, location, ...): the message arguments name the symbol.
Diagnostic(descriptor, location, symbol) ==
  [Descriptor |-> descriptor, Location |-> location, Symbol |-> symbol]

LocationNone == [Kind |-> "None", Of |-> NULL]

\* DiagnosticDescriptors: the severity of the descriptors of the analysis.
DescriptorSeverity(descriptor) == "Error"

\* symbol.GetLocation(): where the symbol is declared.
GetLocation(symbol) == [Kind |-> "Symbol", Of |-> symbol]

\* attr.ApplicationSyntaxReference.SyntaxTree.GetLocation(...Span)
AttributeLocation(symbol) == [Kind |-> "Attribute", Of |-> symbol]

\* The mutant of AssignNamedArgument that keeps a name that is already set.
AssignNamedArgument_KeepFirst(current, value) == IF current # NULL THEN current ELSE value

\* name = namedArgument.Value.Value as string
AssignNamedArgument(current, value) == value

\* The foreach over attr.NamedArguments with its switch: nameKeys assign the
\* name, contextKeys the context name, any other key ends the loop.
RECURSIVE ReadNamedArguments(_, _, _, _, _)
ReadNamedArguments(named, i, nameKeys, contextKeys, acc) ==
  IF i > Len(named) THEN acc
  ELSE IF named[i].Key \in nameKeys
    THEN ReadNamedArguments(named, i + 1, nameKeys, contextKeys,
           [acc EXCEPT !.name = AssignNamedArgument(acc.name, named[i].Value)])
  ELSE IF named[i].Key \in contextKeys
    THEN ReadNamedArguments(named, i + 1, nameKeys, contextKeys,
           [acc EXCEPT !.context = AssignNamedArgument(acc.context, named[i].Value)])
  ELSE [acc EXCEPT !.unexpected = <<named[i].Key>>]

\* The mutant of ReadAttribute whose switch has no default branch.
ReadAttribute_NoDefault(attr, nameKeys, contextKeys) ==
  [ReadNamedArguments(
     SelectSeq(attr.NamedArguments, LAMBDA n : n.Key \in nameKeys \cup contextKeys),
     1, nameKeys, contextKeys,
     [name |-> IF Len(attr.ConstructorArguments) > 0
               THEN attr.ConstructorArguments[1] ELSE NULL,
      context |-> NULL,
      unexpected |-> <<>>])
   EXCEPT !.unexpected = <<>>]

\* The name from the constructor argument, then the named arguments.
ReadAttribute(attr, nameKeys, contextKeys) ==
  ReadNamedArguments(attr.NamedArguments, 1, nameKeys, contextKeys,
    [name |-> IF Len(attr.ConstructorArguments) > 0
              THEN attr.ConstructorArguments[1] ELSE NULL,
     context |-> NULL,
     unexpected |-> <<>>])

\* a ?? b
Coalesce(a, b) == IF a # NULL THEN a ELSE b

DefaultEventEmitterName == "RCTDeviceEventEmitter"

UnexpectedProperty(attr, symbol) ==
  Diagnostic("UnexpectedPropertyInAttribute", AttributeLocation(symbol), symbol)

(***************************************************************************)
(* The extraction routines.  Each returns whether it succeeded, the        *)
(* extracted model element (in `value`, when it succeeded), the            *)
(* diagnostics it added to m_errors, and the exception it raised.          *)
(***************************************************************************)
Extracted(value) ==
  [ok |-> TRUE, value |-> <<value>>, errors |-> <<>>, thrown |-> "None"]

NotExtracted(errors) ==
  [ok |-> FALSE, value |-> <<>>, errors |-> errors, thrown |-> "None"]

\* The constructor of ReactMethod: it leaves ReturnType at its default, Void = 0.
ReactMethod(method, name, isSynchroneous) ==
  [Method |-> method, Name |-> name, IsSynchroneous |-> isSynchroneous,
   ReturnType |-> "Void"]

ReactInitializer(method) == [Method |-> method]

ReactConstantProvider(method) == [Method |-> method]

ReactConstant(symbol, name) == [Symbol |-> symbol, Name |-> name]

\* The mutant of ReactCallback that leaves CallbackParameters unassigned.
ReactCallback_NoParameters(symbol, callbackParameters, name, callbackContextName) ==
  [Symbol |-> symbol, CallbackParameters |-> <<>>, Name |-> name,
   CallbackContextName |-> callbackContextName]

ReactCallback(symbol, callbackParameters, name, callbackContextName) ==
  [Symbol |-> symbol, CallbackParameters |-> callbackParameters, Name |-> name,
   CallbackContextName |-> callbackContextName]

ReactModule(type, moduleName, eventEmitterName) ==
  [ModuleType |-> type, ModuleName |-> moduleName,
   EventEmitterName |-> eventEmitterName,
   Methods |-> <<>>, Initializers |-> <<>>, ConstantProviders |-> <<>>,
   Constants |-> <<>>, Events |-> <<>>, Functions |-> <<>>]

\* The mutant of ReturnsVoid that takes every method to return nothing.
ReturnsVoid_Always(method) == TRUE

ReturnsVoid(method) == method.Type = "void"

TryExtractMethodFromAttributeData(method, attributeType, synchroneous) ==
  LET attr == TryFindAttribute(method.Attributes, attributeType) IN
  IF attr = <<>> THEN NotExtracted(<<>>)
  ELSE LET read == ReadAttribute(attr[1], {"MethodName"}, {}) IN
    IF read.unexpected # <<>>
    THEN NotExtracted(<<UnexpectedProperty(attr[1], method.Name)>>)
    ELSE Extracted(ReactMethod(method.Name, Coalesce(read.name, method.Name),
                               synchroneous))

TryExtractMethod(method) ==
  TryExtractMethodFromAttributeData(method, "ReactMethod", FALSE)

TryExtractSyncMethod(method) ==
  TryExtractMethodFromAttributeData(method, "ReactSyncMethod", TRUE)

TryExtractConstantProvider(method) ==
  LET attr == TryFindAttribute(method.Attributes, "ReactConstantProvider") IN
  IF attr = <<>> THEN NotExtracted(<<>>)
  ELSE IF ~IsAccessible(method.DeclaredAccessibility)
    THEN NotExtracted(<<Diagnostic("ConstantProviderMustBePublicOrInternal",
                                   GetLocation(method.Name), method.Name)>>)
  ELSE IF ~ReturnsVoid(method)
    THEN NotExtracted(<<Diagnostic("ConstantProviderMustReturnVoid",
                                   GetLocation(method.Name), method.Name)>>)
  ELSE IF Len(method.Parameters) # 1 \/ method.Parameters[1] # "ReactConstantProvider"
    THEN NotExtracted(<<Diagnostic("ConstantProviderMustHaveOneParameterOfTypeReactContext",
                                   GetLocation(method.Name), method.Name)>>)
  ELSE Extracted(ReactConstantProvider(method.Name))

TryExtractInitializer(method) ==
  LET attr == TryFindAttribute(method.Attributes, "ReactInitializer") IN
  IF attr = <<>> THEN NotExtracted(<<>>)
  ELSE IF ~IsAccessible(method.DeclaredAccessibility)
    THEN NotExtracted(<<Diagnostic("InitializersMustBePublicOrInternal",
                                   GetLocation(method.Name), method.Name)>>)
  ELSE IF ~ReturnsVoid(method)
    THEN NotExtracted(<<Diagnostic("InitializersMustReturnVoid",
                                   GetLocation(method.Name), method.Name)>>)
  ELSE IF Len(method.Parameters) # 1 \/ method.Parameters[1] # "ReactContext"
    THEN NotExtracted(<<Diagnostic("InitializersMustHaveOneParameterOfTypeReactContext",
                                   GetLocation(method.Name), method.Name)>>)
  ELSE Extracted(ReactInitializer(method.Name))

\* The mutant of HasNoAccessibleGetter that only looks for a getter.
HasNoAccessibleGetter_NullOnly(property) == property.GetMethod = "None"

\* property.GetMethod == null || !IsAccessible(property.GetMethod)
HasNoAccessibleGetter(property) ==
  property.GetMethod = "None" \/ ~IsAccessible(property.GetMethod)

TryExtractConstant(symbol) ==
  LET attr == TryFindAttribute(symbol.Attributes, "ReactConstant") IN
  IF attr = <<>> THEN NotExtracted(<<>>)
  ELSE LET read == ReadAttribute(attr[1], {"ConstantName"}, {}) IN
    IF read.unexpected # <<>>
    THEN NotExtracted(<<UnexpectedProperty(attr[1], symbol.Name)>>)
    ELSE IF ~IsAccessible(symbol.DeclaredAccessibility)
      THEN NotExtracted(<<Diagnostic("ConstantsMustBePublicOrInternal",
                                     GetLocation(symbol.Name), symbol.Name)>>)
    ELSE IF symbol.Kind = "Property" /\ HasNoAccessibleGetter(symbol)
      THEN NotExtracted(<<Diagnostic("ConstantsMustBeGettable",
                                     GetLocation(symbol.Name), symbol.Name)>>)
    ELSE Extracted(ReactConstant(symbol.Name, Coalesce(read.name, symbol.Name)))

\* The mutant of HasNoAccessibleSetter that forgets the test.
HasNoAccessibleSetter_Never(property) == FALSE

\* property.SetMethod == null || !IsAccessible(property.SetMethod)
HasNoAccessibleSetter(property) ==
  property.SetMethod = "None" \/ ~IsAccessible(property.SetMethod)

TryExtractCallback(symbol, defaultCallbackContextName, attribute) ==
  LET attr == TryFindAttribute(symbol.Attributes, attribute) IN
  IF attr = <<>> THEN NotExtracted(<<>>)
  ELSE LET read == ReadAttribute(attr[1], {"FunctionName", "EventName"},
                                 {"ModuleName", "EventEmitterName"})
           type == TypeSymbols[symbol.Type]
       IN
    IF read.unexpected # <<>>
    THEN NotExtracted(<<UnexpectedProperty(attr[1], symbol.Name)>>)
    ELSE IF symbol.Kind \notin {"Property", "Field"}
      THEN [NotExtracted(<<>>) EXCEPT !.thrown = "ContractAssertFailure"]
    ELSE IF symbol.Kind = "Property" /\ HasNoAccessibleSetter(symbol)
      THEN NotExtracted(<<Diagnostic("CallbacksMustBeSettable",
                                     GetLocation(symbol.Name), symbol.Name)>>)
    ELSE IF ~IsAccessible(symbol.DeclaredAccessibility)
      THEN NotExtracted(<<Diagnostic("CallbackMustBePublicOrInternal",
                                     GetLocation(symbol.Name), symbol.Name)>>)
    ELSE IF ~type.named \/ type.invoke = <<>>
      THEN NotExtracted(<<Diagnostic("CallbackTypeMustBeDelegate",
                                     GetLocation(symbol.Name), symbol.Name)>>)
    ELSE IF type.invoke[1].ReturnType # "void"
      THEN NotExtracted(<<Diagnostic("CallbackDelegateMustReturnVoid",
                                     GetLocation(symbol.Name), symbol.Name)>>)
    ELSE Extracted(ReactCallback(symbol.Name, type.invoke[1].Parameters,
                                 Coalesce(read.name, symbol.Name),
                                 Coalesce(read.context, defaultCallbackContextName)))

\* The mutant of TryExtractEvent that takes the library default for the
\* module's event emitter name.
TryExtractEvent_DefaultEmitter(symbol, defaultEventEmitterName) ==
  TryExtractCallback(symbol, DefaultEventEmitterName, "ReactEvent")

TryExtractEvent(symbol, defaultEventEmitterName) ==
  TryExtractCallback(symbol, defaultEventEmitterName, "ReactEvent")

TryExtractFunction(symbol, moduleName) ==
  TryExtractCallback(symbol, moduleName, "ReactFunction")

(***************************************************************************)
(* ReactAssembly and its dictionaries.  A dictionary is the sequence of    *)
(* its entries in insertion order; Add of a key that is present raises     *)
(* ArgumentException, as Dictionary<K,V>.Add does.                         *)
(***************************************************************************)
ReactAssembly ==
  [Modules |-> <<>>, ViewManagers |-> <<>>, SerializableTypes |-> <<>>,
   JSReaderFunctions |-> <<>>, JSWriterFunctions |-> <<>>]

Keys(dictionary) == [i \in DOMAIN dictionary |-> dictionary[i].Key]

ContainsKey(dictionary, key) == \E i \in DOMAIN dictionary : dictionary[i].Key = key

\* The mutant of DictionaryAdd that adds a second entry for a key that is present.
DictionaryAdd_Duplicate(dictionary, key, value) ==
  [dictionary |-> Append(dictionary, [Key |-> key, Value |-> value]),
   thrown |-> "None"]

DictionaryAdd(dictionary, key, value) ==
  IF ContainsKey(dictionary, key)
  THEN [dictionary |-> dictionary, thrown |-> "ArgumentException"]
  ELSE [dictionary |-> Append(dictionary, [Key |-> key, Value |-> value]),
        thrown |-> "None"]

IsViewManager(type) == ~IsAbstract(type) /\ "IViewManager" \in AllInterfaces(type)

(***************************************************************************)
(* The run: AnalyzeAndFindTypes, then Generate.                            *)
(***************************************************************************)
\* The compilations that are analysed: the module type with every attribute
\* list of the pool over a fixed pair of members, and with the plain marker
\* over every list of at most MaxMembers members of the pool.
\* All sequences of elements of S of length at most n.
BoundedSeq(S, n) == UNION {[1..k -> S] : k \in 0..n}

\* All subsets of S of at most n elements.
RECURSIVE SubsetsUpTo(_, _)
SubsetsUpTo(S, n) ==
  IF n = 0 THEN {{}}
  ELSE SubsetsUpTo(S, n - 1) \cup {p \cup {x} : p \in SubsetsUpTo(S, n - 1), x \in S}

\* A diagnostic of the compilation.
CompilerDiagnostic(id, severity) ==
  [Descriptor |-> id, Location |-> [Kind |-> "Source", Of |-> "test.cs"],
   Symbol |-> NULL, Severity |-> severity]

CompilerDiagnostics ==
  {CompilerDiagnostic("CS0103", "Error"), CompilerDiagnostic("CS0168", "Warning")}

\* The two assemblies ReactTypes looks its types up in.
ReactNativeAssemblyName == "Microsoft.ReactNative"

ReactNativeManagedAssemblyName == "Microsoft.ReactNative.Managed"

\* The types the constructor of ReactTypes looks up, in its order, each with
\* the assembly it is looked up in.  The metadata name of a generic type of
\* one parameter is written with _1.
RequiredType(assemblyName, typeName) == [Assembly |-> assemblyName, Type |-> typeName]

RequiredTypes ==
  [i \in 1..10 |->
     RequiredType(ReactNativeAssemblyName,
       <<"IViewManager", "IReactPackageProvider", "IReactPackageBuilder",
         "IReactModuleBuilder", "IReactContext", "IJSValueWriter", "IJSValueReader",
         "JSValueType", "MethodReturnType", "MethodResultCallback">>[i])]
  \o [i \in 1..19 |->
     RequiredType(ReactNativeManagedAssemblyName,
       <<"ReactContext", "ReactConstantProvider", "IReactPromise_1", "ReactPromise_1",
         "JSValue", "JSValueWriter", "JSValueReader", "JSValueWriterGenerator",
         "JSValueReaderGenerator", "JSValueWriterCodeGen_1", "JSValueReaderCodeGen_1",
         "ReactModuleAttribute", "ReactInitializerAttribute", "ReactConstantAttribute",
         "ReactConstantProviderAttribute", "ReactMethodAttribute",
         "ReactSyncMethodAttribute", "ReactEventAttribute",
         "ReactFunctionAttribute">>[i])]

\* What may fail to resolve: a referenced assembly, or a type of one.
Resolvable ==
  {ReactNativeAssemblyName, ReactNativeManagedAssemblyName}
    \cup {RequiredTypes[i].Type : i \in DOMAIN RequiredTypes}

\* The compilations that are analysed: the module attribute varies, or the
\* members of the module type, or the methods of Extensions, or the
\* diagnostics and the references of the compilation.
Compilations ==
  {<<a, <<"evOk", "fnPrivate">>, <<>>, <<>>, {}>> : a \in ModuleAttrPool}
    \cup {<<a, m, <<>>, <<>>, {}>> :
            a \in ModuleAttrPool, m \in {<<"fnPlain", "evOk">>, <<"fnOk", "evField">>}}
    \cup {<<PlainModuleAttr, m, <<>>, <<>>, {}>> : m \in DistinctSeq(MemberNames, MaxMembers)}
    \cup {<<PlainModuleAttr, <<"getValue">>, e, <<>>, {}>> :
            e \in DistinctSeq(ExtensionNames, MaxExtensions)}
    \cup {<<PlainModuleAttr, <<"evNoSet">>, <<"ReadInt">>, d, u>> :
            d \in BoundedSeq(CompilerDiagnostics, MaxDiagnostics),
            u \in SubsetsUpTo(Resolvable, MaxMissing)}

Start == Pc("scan", 1, 0, "module")

(***************************************************************************)
(* ReactNativeHost: the build without CORE_ABI (with CORE_ABI the body of  *)
(* ReloadInstance is assert(false)).  The host is one record; its fields   *)
(* m_packageProviders, m_instanceSettings and m_packageBuilder hold <<>>   *)
(* for a null reference and <<x>> for a reference to x.  The other fields  *)
(* observe the calls the host made.                                        *)
(***************************************************************************)
MaxProviders == 2
MaxReloads == 2

PackageProviderPool == {"p1", "p2"}

\* The vectors an application can hand to the PackageProviders setter; a
\* vector may hold the same provider more than once.
ProviderVectors == BoundedSeq(PackageProviderPool, MaxProviders)

\* single_threaded_vector<IReactPackageProvider>()
single_threaded_vector == <<>>

\* ReactInstanceSettings, by the two properties ReloadInstance computes the
\* identity from.
ReactInstanceSettings(JavaScriptBundleFile, JavaScriptMainModuleName) ==
  [JavaScriptBundleFile |-> JavaScriptBundleFile,
   JavaScriptMainModuleName |-> JavaScriptMainModuleName]

\* make<ReactInstanceSettings>(): every string property empty.
MakeReactInstanceSettings == ReactInstanceSettings("", "")

InstanceSettingsPool ==
  {MakeReactInstanceSettings, ReactInstanceSettings("", "app"),
   ReactInstanceSettings("index.bundle", "app")}

\* reactOptions.Identity
Identity(settings) ==
  IF settings.JavaScriptBundleFile = ""
  THEN IF settings.JavaScriptMainModuleName # ""
       THEN settings.JavaScriptMainModuleName
       ELSE "index.windows"
  ELSE settings.JavaScriptBundleFile

\* if (!m_packageBuilder)
NeedsPackageBuilder_Always(packageBuilder) == TRUE

NeedsPackageBuilder(packageBuilder) == packageBuilder = <<>>

\* What the dereference of a null m_instanceSettings can do: end the process
\* with an access violation, or go on with values read from elsewhere.
NullDereference == {"AccessViolation", "Garbage"}

\* The host after its constructor.
NewHost ==
  [m_packageProviders |-> <<>>,
   m_instanceSettings |-> <<>>,
   m_packageBuilder |-> <<>>,
   builders |-> 0,          \* the package builders made so far
   created |-> <<>>,        \* the CreatePackage calls made so far, in order
   reloads |-> 0,           \* the calls of ReloadInstance so far
   readUnset |-> FALSE,     \* ReloadInstance read a null m_instanceSettings
   crashed |-> FALSE,       \* the process ended with an access violation
   m_reactHost |-> <<>>]    \* the identities given to ReloadInstanceWithOptions

\* IVector<IReactPackageProvider> PackageProviders()
PackageProviders ==
  /\ ~host.crashed
  /\ host' = IF host.m_packageProviders = <<>>
             THEN [host EXCEPT !.m_packageProviders = <<single_threaded_vector>>]
             ELSE host
  /\ UNCHANGED analysis

\* void PackageProviders(IVector<IReactPackageProvider> const &value)
SetPackageProviders(value) ==
  /\ ~host.crashed
  /\ host' = [host EXCEPT !.m_packageProviders = value]
  /\ UNCHANGED analysis

\* Append on the vector the host holds, by the application that got it from
\* the getter or gave it to the setter.
AppendPackageProvider(packageProvider) ==
  /\ ~host.crashed
  /\ host.m_packageProviders # <<>>
  /\ Len(host.m_packageProviders[1]) < MaxProviders
  /\ host' = [host EXCEPT !.m_packageProviders =
                <<Append(host.m_packageProviders[1], packageProvider)>>]
  /\ UNCHANGED analysis

\* ReactInstanceSettings InstanceSettings()
InstanceSettings ==
  /\ ~host.crashed
  /\ host' = IF host.m_instanceSettings = <<>>
             THEN [host EXCEPT !.m_instanceSettings = <<MakeReactInstanceSettings>>]
             ELSE host
  /\ UNCHANGED analysis

\* void InstanceSettings(ReactInstanceSettings const &value)
SetInstanceSettings(value) ==
  /\ ~host.crashed
  /\ host' = [host EXCEPT !.m_instanceSettings = value]
  /\ UNCHANGED analysis

\* The calls packageProvider.CreatePackage(m_packageBuilder) of one pass over
\* the vector, each with the number of the ReloadInstance call that made it.
CreatePackages(packageProviders, reload) ==
  IF packageProviders = <<>>
  THEN <<>>
  ELSE [i \in 1..Len(packageProviders[1]) |->
          [packageProvider |-> packageProviders[1][i], reload |-> reload]]

\* void ReloadInstance()
ReloadInstance ==
  /\ ~host.crashed
  /\ host.reloads < MaxReloads
  /\ LET create == NeedsPackageBuilder(host.m_packageBuilder)
         reload == host.reloads + 1
         built == [host EXCEPT
                     !.reloads = reload,
                     !.m_packageBuilder = IF create THEN <<host.builders + 1>> ELSE @,
                     !.builders = IF create THEN @ + 1 ELSE @,
                     !.created = IF create
                                 THEN @ \o CreatePackages(host.m_packageProviders, reload)
                                 ELSE @]
     IN IF host.m_instanceSettings = <<>>
        THEN \E outcome \in NullDereference :
               IF outcome = "AccessViolation"
               THEN host' = [built EXCEPT !.readUnset = TRUE, !.crashed = TRUE]
               ELSE \E settings \in InstanceSettingsPool :
                      host' = [built EXCEPT
                                 !.readUnset = TRUE,
                                 !.m_reactHost = Append(@, Identity(settings))]
        ELSE host' = [built EXCEPT
                        !.m_reactHost = Append(@, Identity(host.m_instanceSettings[1]))]
  /\ UNCHANGED analysis

(***************************************************************************)
(* One ReactNativeHost under every order of the calls an application can   *)
(* make on it; the code generator does not run.                            *)
(***************************************************************************)
InitHost ==
  /\ host = NewHost
  /\ moduleAttrs = <<>>
  /\ members = <<>>
  /\ extensions = <<>>
  /\ diagnostics = <<>>
  /\ missing = {}
  /\ ReactTypes = NULL
  /\ exitCode = <<>>
  /\ m_errors = <<>>
  /\ assembly = ReactAssembly
  /\ proceseedTypes = {}
  /\ module = <<>>
  /\ worklist = <<>>
  /\ thrown = "None"
  /\ output = <<>>
  /\ options = [SourceFiles |-> <<>>, References |-> <<>>]
  /\ ConcurrencyLevel = Unbounded
  /\ cancelled = FALSE
  /\ block = [queue |-> <<>>, running |-> {}, completed |-> FALSE, completion |-> "None"]
  /\ m_syntaxTrees = EmptyBag
  /\ m_metadataReferences = EmptyBag
  /\ pc = Pc("host", 0, 0, "host")

NextHost ==
  \/ PackageProviders
  \/ \E value \in {<<>>} \cup {<<vector>> : vector \in ProviderVectors} :
       SetPackageProviders(value)
  \/ \E packageProvider \in PackageProviderPool : AppendPackageProvider(packageProvider)
  \/ InstanceSettings
  \/ \E value \in {<<>>} \cup {<<settings>> : settings \in InstanceSettingsPool} :
       SetInstanceSettings(value)
  \/ ReloadInstance

SpecHost == InitHost /\ [][NextHost]_vars

Init ==
  /\ \E c \in Compilations :
       /\ moduleAttrs = c[1]
       /\ members = c[2]
       /\ extensions = c[3]
       /\ diagnostics = c[4]
       /\ missing = c[5]
  /\ ReactTypes = NULL
  /\ exitCode = <<>>
  /\ m_errors = <<>>
  /\ assembly = ReactAssembly
  /\ proceseedTypes = {}
  /\ module = <<>>
  /\ worklist = <<>>
  /\ thrown = "None"
  /\ output = <<>>
  /\ options = [SourceFiles |-> <<"a.cs">>, References |-> <<"r.dll">>]
  /\ ConcurrencyLevel = Unbounded
  /\ cancelled = FALSE
  /\ block = [queue |-> <<>>, running |-> {}, completed |-> TRUE,
              completion |-> "RanToCompletion"]
  /\ m_syntaxTrees = SetToBag({"a.cs"})
  /\ m_metadataReferences = SetToBag({"r.dll"})
  /\ pc = Pc("compile", 0, 0, "compile")
  /\ host = NewHost

Failed == Pc("failed", 0, 0, "failed")

\* The type being scanned and the member being extracted.
CurrentType == Catalog[pc.index]

CurrentMember == GetMembers(CurrentType)[pc.member]

\* The first extraction tried on a member: by the `member is ...` tests.
FirstStage(symbol) ==
  IF symbol.Kind = "Method" THEN "method" ELSE "constant"

\* The next member from index i on that is a method, a property or a field
\* (the loop body does nothing for any other member); 0 when there is none.
NextMember(type, i) ==
  LET later == {j \in DOMAIN GetMembers(type) :
                  j >= i /\ GetMembers(type)[j].Kind \in {"Method", "Property", "Field"}}
  IN  IF later = {} THEN 0 ELSE Min(later)

\* The position at member i or after it; past the last member, where
\* TryExtractModule returns true.
AtMember(i) ==
  LET j == NextMember(CurrentType, i) IN
  IF j = 0 THEN Pc("scan", pc.index, 0, "addModule")
  ELSE Pc("scan", pc.index, j, FirstStage(GetMembers(CurrentType)[j]))

\* The mutant of AfterExtracted that goes on with the next shape, as a chain
\* of `if` without `else` would.
AfterExtracted_TryNext(nextStage) ==
  IF nextStage = "" THEN AtMember(pc.member + 1) ELSE [pc EXCEPT !.stage = nextStage]

\* Where the else-if chain goes after a shape accepted the member: to the
\* next member.
AfterExtracted(nextStage) == AtMember(pc.member + 1)

\* Where the else-if chain goes after a shape returned false: to the next
\* shape, and after the last one to the next member.
AfterNotExtracted(nextStage) ==
  IF nextStage = "" THEN AtMember(pc.member + 1) ELSE [pc EXCEPT !.stage = nextStage]

\* One arm of the else-if chain of TryExtractModule: the routine's result r,
\* the sequence of the module that takes the element, the next arm.
TryExtract(stage, r, sequence, nextStage) ==
  /\ pc.phase = "scan"
  /\ pc.stage = stage
  /\ m_errors' = m_errors \o r.errors
  /\ IF r.thrown # "None"
     THEN /\ thrown' = r.thrown
          /\ pc' = Failed
          /\ UNCHANGED module
     ELSE /\ UNCHANGED thrown
          /\ IF r.ok
             THEN /\ module' = <<[module[1] EXCEPT ![sequence] = Append(@, r.value[1])]>>
                  /\ pc' = AfterExtracted(nextStage)
             ELSE /\ UNCHANGED module
                  /\ pc' = AfterNotExtracted(nextStage)
  /\ UNCHANGED <<input, host, loading, ReactTypes, exitCode, assembly, proceseedTypes, worklist, output>>

\* TryExtractModule up to the loop over the members.
TryExtractModule ==
  /\ pc.phase = "scan"
  /\ pc.stage = "module"
  /\ LET attr == TryFindAttribute(GetAttributes(CurrentType), "ReactModule") IN
     IF attr = <<>>
     THEN /\ pc' = [pc EXCEPT !.stage = "register"]
          /\ UNCHANGED <<m_errors, module>>
     ELSE LET read == ReadAttribute(attr[1], {"ModuleName"}, {"EventEmitterName"}) IN
          IF read.unexpected # <<>>
          THEN /\ m_errors' = Append(m_errors, UnexpectedProperty(attr[1], CurrentType))
               /\ pc' = [pc EXCEPT !.stage = "register"]
               /\ UNCHANGED module
          ELSE /\ module' = <<ReactModule(CurrentType,
                                Coalesce(read.name, CurrentType),
                                Coalesce(read.context, DefaultEventEmitterName))>>
               /\ pc' = AtMember(1)
               /\ UNCHANGED m_errors
  /\ UNCHANGED <<input, host, loading, ReactTypes, exitCode, assembly, proceseedTypes, worklist, thrown, output>>

ExtractMethod ==
  TryExtract("method", TryExtractMethod(CurrentMember), "Methods", "syncMethod")

ExtractSyncMethod ==
  TryExtract("syncMethod", TryExtractSyncMethod(CurrentMember), "Methods", "initializer")

ExtractInitializer ==
  TryExtract("initializer", TryExtractInitializer(CurrentMember), "Initializers",
             "constantProvider")

ExtractConstantProvider ==
  TryExtract("constantProvider", TryExtractConstantProvider(CurrentMember),
             "ConstantProviders", "")

ExtractConstant ==
  TryExtract("constant", TryExtractConstant(CurrentMember), "Constants", "event")

ExtractEvent ==
  TryExtract("event", TryExtractEvent(CurrentMember, module[1].EventEmitterName),
             "Events", "function")

ExtractFunction ==
  TryExtract("function", TryExtractFunction(CurrentMember, module[1].ModuleName),
             "Functions", "")

\* assembly.Modules.Add(module), once TryExtractModule returned true.
AddModule ==
  /\ pc.phase = "scan"
  /\ pc.stage = "addModule"
  /\ assembly' = [assembly EXCEPT !.Modules = Append(@, module[1])]
  /\ module' = <<>>
  /\ pc' = [pc EXCEPT !.stage = "register"]
  /\ UNCHANGED <<input, host, loading, ReactTypes, exitCode, m_errors, proceseedTypes, worklist, thrown, output>>

\* method.IsExtensionMethod && method.Parameters.Length == 2 &&
\* !(method.Parameters[1].Type is ITypeParameterSymbol)
IsCandidate(method) ==
  /\ method.IsExtensionMethod
  /\ Len(method.Parameters) = 2
  /\ ~method.Parameters[2].IsTypeParameter

\* The mutant of IsReader that does not look at the RefKind.
IsReader_AnyRefKind(method) == method.Parameters[1].Type = "JSValueReader"

IsReader(method) ==
  /\ method.Parameters[1].Type = "JSValueReader"
  /\ method.Parameters[2].RefKind = "Out"

IsWriter(method) == method.Parameters[1].Type = "JSValueWriter"

\* The loop over the members of a type that might contain extension
\* methods, from member i on: the two registries it leaves, and the
\* exception that ended it.
RECURSIVE RegisterExtensionMethods(_, _, _)
RegisterExtensionMethods(methods, i, registry) ==
  IF i > Len(methods) THEN registry
  ELSE LET method == methods[i] IN
    IF method.Kind = "Method" /\ IsCandidate(method) /\ IsReader(method)
    THEN LET added == DictionaryAdd(registry.JSReaderFunctions,
                                    method.Parameters[2].Type, method.Name)
         IN  IF added.thrown # "None" THEN [registry EXCEPT !.thrown = added.thrown]
             ELSE RegisterExtensionMethods(methods, i + 1,
                    [registry EXCEPT !.JSReaderFunctions = added.dictionary])
    ELSE IF method.Kind = "Method" /\ IsCandidate(method) /\ IsWriter(method)
    THEN LET added == DictionaryAdd(registry.JSWriterFunctions,
                                    method.Parameters[2].Type, method.Name)
         IN  IF added.thrown # "None" THEN [registry EXCEPT !.thrown = added.thrown]
             ELSE RegisterExtensionMethods(methods, i + 1,
                    [registry EXCEPT !.JSWriterFunctions = added.dictionary])
    ELSE RegisterExtensionMethods(methods, i + 1, registry)

\* The mutant of RegistersProactively that registers a type of any kind.
RegistersProactively_Any(typeKind) == TRUE

\* switch (type.TypeKind) { case TypeKind.Enum: ... }
RegistersProactively(typeKind) == typeKind = "Enum"

\* The rest of the loop body for one type: the view manager test, the
\* proactive registration of an enum type and the registration of the
\* extension methods.
RegisterType ==
  /\ pc.phase = "scan"
  /\ pc.stage = "register"
  /\ LET viewManagers == IF IsViewManager(CurrentType)
                         THEN Append(assembly.ViewManagers, CurrentType)
                         ELSE assembly.ViewManagers
         enum == IF RegistersProactively(TypeSymbols[CurrentType].TypeKind)
                 THEN DictionaryAdd(assembly.SerializableTypes, CurrentType,
                                    TypeSymbols[CurrentType].TypeKind)
                 ELSE [dictionary |-> assembly.SerializableTypes, thrown |-> "None"]
         registry == [JSReaderFunctions |-> assembly.JSReaderFunctions,
                      JSWriterFunctions |-> assembly.JSWriterFunctions,
                      thrown |-> enum.thrown]
         added == IF enum.thrown = "None" /\ MightContainExtensionMethods(CurrentType)
                  THEN RegisterExtensionMethods(GetMembers(CurrentType), 1, registry)
                  ELSE registry
     IN /\ assembly' = [assembly EXCEPT !.ViewManagers = viewManagers,
                                        !.SerializableTypes = enum.dictionary,
                                        !.JSReaderFunctions = added.JSReaderFunctions,
                                        !.JSWriterFunctions = added.JSWriterFunctions]
        /\ thrown' = added.thrown
        /\ pc' = IF added.thrown # "None" THEN Failed
                 ELSE IF pc.index < Len(Catalog) THEN Pc("scan", pc.index + 1, 0, "module")
                 ELSE Pc("seed", 1, 0, "seed")
  /\ UNCHANGED <<input, host, loading, ReactTypes, exitCode, m_errors, proceseedTypes, module, worklist, output>>

(***************************************************************************)
(* The serializable-type closure.  AddSerializableType does nothing after  *)
(* its recursive calls return, so the pending calls are kept as a list:    *)
(* the calls a delegate's signature makes go in front of the calls that    *)
(* were pending.                                                           *)
(***************************************************************************)
\* AddSerializableMethod: the calls of AddSerializableType it makes, in order.
AddSerializableMethod(returnType, parameters) == <<returnType>> \o parameters

\* The calls of AddSerializableType the seeding loop makes for one module.
SeedCalls(m) ==
  Concat([i \in DOMAIN m.Methods |->
            AddSerializableMethod(Symbol(m.Methods[i].Method).Type,
                                  Symbol(m.Methods[i].Method).Parameters)])
  \o [i \in DOMAIN m.Constants |-> Symbol(m.Constants[i].Symbol).Type]
  \o Concat([i \in DOMAIN (m.Events \o m.Functions) |->
               (m.Events \o m.Functions)[i].CallbackParameters])

\* One iteration of `foreach (var module in assembly.Modules)`.
SeedModule ==
  /\ pc.phase = "seed"
  /\ worklist = <<>>
  /\ pc.index <= Len(assembly.Modules)
  /\ worklist' = SeedCalls(assembly.Modules[pc.index])
  /\ pc' = [pc EXCEPT !.index = @ + 1]
  /\ UNCHANGED <<input, host, loading, ReactTypes, exitCode, m_errors, assembly, proceseedTypes, module, thrown, output>>

\* The mutant of Contains that finds nothing.
Contains_Never(set, item) == FALSE

\* HashSet.Contains
Contains(set, item) == item \in set

\* One call of AddSerializableType.
AddSerializableType ==
  /\ pc.phase = "seed"
  /\ worklist # <<>>
  /\ LET type == Head(worklist)
         symbol == TypeSymbols[type]
     IN
     IF Contains(proceseedTypes, type)
     THEN /\ worklist' = Tail(worklist)
          /\ UNCHANGED <<proceseedTypes, assembly, thrown, pc>>
     ELSE /\ proceseedTypes' = proceseedTypes \cup {type}
          /\ IF symbol.named /\ symbol.TypeKind = "Delegate"
             THEN /\ worklist' = AddSerializableMethod(symbol.invoke[1].ReturnType,
                                                       symbol.invoke[1].Parameters)
                                 \o Tail(worklist)
                  /\ UNCHANGED <<assembly, thrown, pc>>
             ELSE IF symbol.named /\ symbol.local
             THEN LET added == DictionaryAdd(assembly.SerializableTypes, type,
                                             symbol.TypeKind)
                  IN /\ assembly' = [assembly EXCEPT !.SerializableTypes = added.dictionary]
                     /\ thrown' = added.thrown
                     /\ IF added.thrown # "None"
                        THEN pc' = Failed /\ worklist' = worklist
                        ELSE pc' = pc /\ worklist' = Tail(worklist)
             ELSE /\ worklist' = Tail(worklist)
                  /\ UNCHANGED <<assembly, thrown, pc>>
  /\ UNCHANGED <<input, host, loading, ReactTypes, exitCode, m_errors, module, output>>

\* `return assembly`
FinishAnalysis ==
  /\ pc.phase = "seed"
  /\ worklist = <<>>
  /\ pc.index > Len(assembly.Modules)
  /\ pc' = Pc("generate", 0, 0, "generate")
  /\ UNCHANGED <<input, host, loading, ReactTypes, exitCode, m_errors, assembly, proceseedTypes, module, worklist, thrown,
                 output>>

(***************************************************************************)
(* CodeGenerator.Generate.  The generated syntax is kept as the statements *)
(* of CreatePackage and the members of the class, in order; a generated    *)
(* routine is named by the helper that builds it and holds what it was     *)
(* built from.                                                             *)
(***************************************************************************)
InvocationStatement(name, arguments) == [Invoke |-> name, Arguments |-> arguments]

MethodDeclaration(name, from) == [Routine |-> name, From |-> from]

CreateViewManagers(viewManagers) == MethodDeclaration("CreateViewManagers", viewManagers)

CreateModules(modules) == MethodDeclaration("CreateModules", modules)

\* CreateSerializers returns several members; its registration routine is one.
CreateSerializers(types) == <<MethodDeclaration("CreateSerializers", types)>>

RegisterExtensionReaders(functions) ==
  MethodDeclaration("RegisterExtensionReaders", functions)

RegisterExtensionWriter(functions) ==
  MethodDeclaration("RegisterExtensionWriter", functions)

\* Enumerable.Any: whether the collection holds an element.
AnyOf(collection) == collection # <<>>

\* The mutant of AddCategory that emits for an empty category too.
AddCategory_Always(generated, present, call, routines) ==
  [separateRegistrationCalls |-> Append(generated.separateRegistrationCalls, call),
   classMembers |-> generated.classMembers \o routines]

\* `if (category.Any()) { calls.Add(call); members.Add(routine) }` applied to
\* what was generated so far.
AddCategory(generated, present, call, routines) ==
  IF present
  THEN [separateRegistrationCalls |-> Append(generated.separateRegistrationCalls, call),
        classMembers |-> generated.classMembers \o routines]
  ELSE generated

Generate(a, rootNamespace) ==
  LET g0 == [separateRegistrationCalls |-> <<>>, classMembers |-> <<>>]
      g1 == AddCategory(g0, AnyOf(a.ViewManagers),
              InvocationStatement("CreateViewManagers", <<"packageBuilder">>),
              <<CreateViewManagers(a.ViewManagers)>>)
      g2 == AddCategory(g1, AnyOf(a.Modules),
              InvocationStatement("CreateModules", <<"packageBuilder">>),
              <<CreateModules(a.Modules)>>)
      g3 == AddCategory(g2, AnyOf(a.SerializableTypes),
              InvocationStatement("CreateSerializers", <<>>),
              CreateSerializers(Keys(a.SerializableTypes)))
      g4 == AddCategory(g3, AnyOf(a.JSReaderFunctions),
              InvocationStatement("RegisterExtensionReaders", <<>>),
              <<RegisterExtensionReaders(a.JSReaderFunctions)>>)
      g5 == AddCategory(g4, AnyOf(a.JSWriterFunctions),
              InvocationStatement("RegisterExtensionWriter", <<>>),
              <<RegisterExtensionWriter(a.JSWriterFunctions)>>)
      createPackageMethod == MethodDeclaration("CreatePackage", g5.separateRegistrationCalls)
  IN  [Namespace |-> rootNamespace,
       Class |-> "ReactPackageProvider",
       Members |-> <<createPackageMethod>> \o g5.classMembers]

\* options.Namespace
RootNamespace == "Test.TestNS"

\* App.Run: codeGenerator.Generate(assembly)
GenerateCode ==
  /\ pc.phase = "generate"
  /\ output' = <<Generate(assembly, RootNamespace)>>
  /\ exitCode' = <<0>>
  /\ pc' = Pc("done", 0, 0, "done")
  /\ UNCHANGED <<input, host, loading, ReactTypes, m_errors, assembly, proceseedTypes, module, worklist,
                 thrown>>

(***************************************************************************)
(* The loading of the sources and of the references: ParseSourceFilesAsync *)
(* and LoadMetadataReferencesAsync post one unit of work for every path to *)
(* an ActionBlock, whose workers run them.  A unit of work is named by its *)
(* position among the posted paths.                                        *)
(***************************************************************************)
\* The paths the options may name.  " A.CS " is a.cs once more, with blanks
\* around it and in another case; the files named gone do not exist.
SourcePaths == {"a.cs", " A.CS ", "b.cs", "gone.cs"}

ReferencePaths == {"r.dll", "R.DLL", "gone.dll"}

\* Path.GetFullPath(file.Trim())
Trim(file) == IF file = " A.CS " THEN "A.CS" ELSE file

\* The case folding of StringComparer.OrdinalIgnoreCase.
FoldCase(path) ==
  IF path = "A.CS" THEN "a.cs" ELSE IF path = "R.DLL" THEN "r.dll" ELSE path

\* File.Exists
FileExists(filePath) == FoldCase(filePath) \in {"a.cs", "b.cs", "r.dll"}

\* Enumerable.Distinct under a comparer: the first of the paths whose keys
\* (the path as the comparer sees it) are equal.
DistinctBy(paths, keys) ==
  SelectSeq([i \in DOMAIN paths |-> [Path |-> paths[i], First |-> \A j \in 1..(i - 1) :
                                                                 keys[j] # keys[i]]],
            LAMBDA e : e.First)

Paths(entries) == [i \in DOMAIN entries |-> entries[i].Path]

\* App.GetDistinctExistingFiles
GetDistinctExistingFiles(files) ==
  LET existing == SelectSeq([i \in DOMAIN files |-> Trim(files[i])], FileExists)
  IN Paths(DistinctBy(existing, [i \in DOMAIN existing |-> FoldCase(existing[i])]))

\* references.Distinct()
Distinct(references) == Paths(DistinctBy(references, references))

\* The paths the operation under way posts, in order.
Posts ==
  IF pc.phase = "parse" THEN GetDistinctExistingFiles(options.SourceFiles)
  ELSE Distinct(GetDistinctExistingFiles(options.References))

\* The values ConcurrencyLevel may be set to.
ConcurrencyLevels == {Unbounded} \cup 0..MaxConcurrencyLevel

\* The setter of MaxDegreeOfParallelism accepts Unbounded and every positive value.
ValidDegreeOfParallelism(level) == level = Unbounded \/ level >= 1

\* The mutant of CanStart that starts a unit of work whatever is running.
CanStart_Always(running, level) == TRUE

\* MaxDegreeOfParallelism: whether the block may start one more unit of work.
CanStart(running, level) == level = Unbounded \/ Cardinality(running) < level

\* ConcurrentBag.Add
BagAdd(bag, item) == bag (+) SetToBag({item})

\* `new ActionBlock<string>(..., new ExecutionDataflowBlockOptions {...})`:
\* a block made with a token that is signalled is cancelled from the start.
NewActionBlock ==
  /\ pc.phase \in {"parse", "load"}
  /\ pc.stage = "create"
  /\ IF ValidDegreeOfParallelism(ConcurrencyLevel)
     THEN /\ block' = [queue |-> <<>>, running |-> {}, completed |-> FALSE,
                       completion |-> IF cancelled THEN "Canceled" ELSE "Pending"]
          /\ pc' = Pc(pc.phase, 1, 0, "post")
          /\ UNCHANGED thrown
     ELSE /\ thrown' = "ArgumentOutOfRangeException"
          /\ pc' = Failed
          /\ UNCHANGED block
  /\ UNCHANGED <<input, host, options, ConcurrencyLevel, cancelled, m_syntaxTrees,
                 m_metadataReferences, ReactTypes, exitCode, m_errors, assembly,
                 proceseedTypes, module, worklist, output>>

\* block.Post(file) in the foreach: a block that was cancelled declines.
Post ==
  /\ pc.phase \in {"parse", "load"}
  /\ pc.stage = "post"
  /\ pc.index <= Len(Posts)
  /\ block' = IF cancelled \/ block.completion # "Pending" THEN block
              ELSE [block EXCEPT !.queue = Append(@, pc.index)]
  /\ pc' = [pc EXCEPT !.index = @ + 1]
  /\ UNCHANGED <<input, host, options, ConcurrencyLevel, cancelled, m_syntaxTrees,
                 m_metadataReferences, ReactTypes, exitCode, m_errors, assembly,
                 proceseedTypes, module, worklist, thrown, output>>

\* block.Complete()
Complete ==
  /\ pc.phase \in {"parse", "load"}
  /\ pc.stage = "post"
  /\ pc.index > Len(Posts)
  /\ block' = [block EXCEPT !.completed = TRUE]
  /\ pc' = [pc EXCEPT !.stage = "await"]
  /\ UNCHANGED <<input, host, options, ConcurrencyLevel, cancelled, m_syntaxTrees,
                 m_metadataReferences, ReactTypes, exitCode, m_errors, assembly,
                 proceseedTypes, module, worklist, thrown, output>>

\* A worker of the block takes the next unit of work.
StartWork ==
  /\ pc.phase \in {"parse", "load"}
  /\ block.completion = "Pending"
  /\ block.queue # <<>>
  /\ ~cancelled
  /\ CanStart(block.running, ConcurrencyLevel)
  /\ block' = [block EXCEPT !.queue = Tail(@), !.running = @ \cup {Head(block.queue)}]
  /\ UNCHANGED <<input, host, options, ConcurrencyLevel, cancelled, m_syntaxTrees,
                 m_metadataReferences, ReactTypes, exitCode, m_errors, assembly,
                 proceseedTypes, module, worklist, thrown, output, pc>>

\* A unit of work ends: AddSyntaxTree(CSharpSyntaxTree.ParseText(...)) or
\* m_metadataReferences.Add(MetadataReference.CreateFromFile(file)).
FinishWork(work) ==
  /\ pc.phase \in {"parse", "load"}
  /\ work \in block.running
  /\ block' = [block EXCEPT !.running = @ \ {work}]
  /\ IF pc.phase = "parse"
     THEN /\ m_syntaxTrees' = BagAdd(m_syntaxTrees, Posts[work])
          /\ UNCHANGED m_metadataReferences
     ELSE /\ m_metadataReferences' = BagAdd(m_metadataReferences, Posts[work])
          /\ UNCHANGED m_syntaxTrees
  /\ UNCHANGED <<input, host, options, ConcurrencyLevel, cancelled, ReactTypes, exitCode,
                 m_errors, assembly, proceseedTypes, module, worklist, thrown, output, pc>>

\* The mutant of CompletionStatus that takes no notice of the token.
CompletionStatus_RanToCompletion(isCancellationRequested) == "RanToCompletion"

\* The status block.Completion ends in when no unit of work faulted.
CompletionStatus(isCancellationRequested) ==
  IF isCancellationRequested THEN "Canceled" ELSE "RanToCompletion"

\* The block settles block.Completion once no unit of work is running and
\* either everything posted was done after Complete() or the token was
\* signalled, in which case what is queued is dropped.
CompleteBlock ==
  /\ pc.phase \in {"parse", "load"}
  /\ block.completion = "Pending"
  /\ block.running = {}
  /\ cancelled \/ (block.completed /\ block.queue = <<>>)
  /\ block' = [block EXCEPT !.queue = <<>>, !.completion = CompletionStatus(cancelled)]
  /\ UNCHANGED <<input, host, options, ConcurrencyLevel, cancelled, m_syntaxTrees,
                 m_metadataReferences, ReactTypes, exitCode, m_errors, assembly,
                 proceseedTypes, module, worklist, thrown, output, pc>>

\* `await block.Completion`, and what App.Run goes on with.
AwaitCompletion ==
  /\ pc.phase \in {"parse", "load"}
  /\ pc.stage = "await"
  /\ block.completion # "Pending"
  /\ IF block.completion = "Canceled"
     THEN /\ thrown' = "TaskCanceledException"
          /\ pc' = Failed
     ELSE /\ pc' = IF pc.phase = "parse" THEN Pc("load", 0, 0, "create")
                   ELSE Pc("compile", 0, 0, "compile")
          /\ UNCHANGED thrown
  /\ UNCHANGED <<input, host, loading, ReactTypes, exitCode, m_errors, assembly,
                 proceseedTypes, module, worklist, output>>

\* Console.CancelKeyPress: cancellationTokenSource.Cancel()
Cancel ==
  /\ pc.phase \in {"parse", "load", "compile"}
  /\ ~cancelled
  /\ cancelled' = TRUE
  /\ UNCHANGED <<input, host, options, ConcurrencyLevel, block, m_syntaxTrees,
                 m_metadataReferences, ReactTypes, exitCode, m_errors, assembly,
                 proceseedTypes, module, worklist, thrown, output, pc>>

(***************************************************************************)
(* The compilation step of App.Run.                                        *)
(***************************************************************************)
\* ReactTypes.FindType: the diagnostics it adds for one required type.
FindType(required) ==
  IF required.Assembly \in missing
  THEN <<Diagnostic("CantFindReferenceAssembly", LocationNone, required.Assembly)>>
  ELSE IF required.Type \in missing
  THEN <<Diagnostic("CantFindReferenceAssembly", LocationNone, required.Type)>>
  ELSE <<>>

\* The mutant of TryLoad that succeeds whatever was not found.
TryLoad_Always ==
  [ok |-> TRUE,
   diagnostics |-> Concat([i \in DOMAIN RequiredTypes |-> FindType(RequiredTypes[i])])]

\* ReactTypes.TryLoad: the constructor looks every required type up; the
\* load fails when a lookup added a diagnostic, and hands them all over.
TryLoad ==
  LET m_diagnostics == Concat([i \in DOMAIN RequiredTypes |-> FindType(RequiredTypes[i])])
  IN  [ok |-> m_diagnostics = <<>>, diagnostics |-> m_diagnostics]

IsError(diagnostic) == diagnostic.Severity = "Error"

\* The result of CodeAnalyzer.TryCompileAndCheckForErrors, which App.Run
\* tests: true when compiling and loading the required types recorded no
\* error.
TryCompileAndCheckForErrors ==
  /\ SelectSeq(diagnostics, IsError) = <<>>
  /\ TryLoad.ok

\* CodeAnalyzer.CompileAndCheckForErrors as App.Run calls it: the errors of
\* the compilation go to m_errors, the required types are loaded whether or
\* not there were any, and ReactTypes stays unset when the load failed;
\* App.Run returns 1 when the step reports failure.
CompileAndCheckForErrors ==
  /\ pc.phase = "compile"
  /\ IF m_syntaxTrees = EmptyBag \/ m_metadataReferences = EmptyBag
     THEN \* Contract.Assert(m_syntaxTrees.Any()), Contract.Assert(m_metadataReferences.Any())
          /\ thrown' = "ContractAssertFailure"
          /\ pc' = Failed
          /\ UNCHANGED <<m_errors, ReactTypes, exitCode>>
     ELSE IF cancelled
     THEN \* m_compilation.GetDiagnostics(m_cancellationToken)
          /\ thrown' = "OperationCanceledException"
          /\ pc' = Failed
          /\ UNCHANGED <<m_errors, ReactTypes, exitCode>>
     ELSE /\ m_errors' = m_errors \o SelectSeq(diagnostics, IsError) \o TryLoad.diagnostics
          /\ ReactTypes' = IF TryLoad.ok THEN "ReactTypes" ELSE ReactTypes
          /\ IF TryCompileAndCheckForErrors
             THEN /\ pc' = Start
                  /\ UNCHANGED exitCode
             ELSE /\ exitCode' = <<1>>
                  /\ pc' = Pc("done", 0, 0, "done")
          /\ UNCHANGED thrown
  /\ UNCHANGED <<input, host, loading, assembly, proceseedTypes, module, worklist, output>>

Next ==
  \/ CompileAndCheckForErrors
  \/ TryExtractModule
  \/ ExtractMethod
  \/ ExtractSyncMethod
  \/ ExtractInitializer
  \/ ExtractConstantProvider
  \/ ExtractConstant
  \/ ExtractEvent
  \/ ExtractFunction
  \/ AddModule
  \/ RegisterType
  \/ SeedModule
  \/ AddSerializableType
  \/ FinishAnalysis
  \/ GenerateCode

Spec == Init /\ [][Next]_vars

\* App.Run is one sequential computation that goes on as long as it has a
\* step to take.
SpecFair == Init /\ [][Next]_vars /\ WF_vars(Next)

(***************************************************************************)
(* App.Run from its start to the compilation step, for every choice of     *)
(* paths and of ConcurrencyLevel, with the cancellation key pressed at any *)
(* moment.                                                                 *)
(***************************************************************************)
InitLoad ==
  /\ options \in [SourceFiles : BoundedSeq(SourcePaths, MaxFiles),
                   References : BoundedSeq(ReferencePaths, MaxFiles)]
  /\ ConcurrencyLevel \in ConcurrencyLevels
  /\ cancelled = FALSE
  /\ block = [queue |-> <<>>, running |-> {}, completed |-> FALSE, completion |-> "None"]
  /\ m_syntaxTrees = EmptyBag
  /\ m_metadataReferences = EmptyBag
  /\ moduleAttrs = PlainModuleAttr
  /\ members = <<"getValue">>
  /\ extensions = <<>>
  /\ diagnostics = <<>>
  /\ missing = {}
  /\ ReactTypes = NULL
  /\ exitCode = <<>>
  /\ m_errors = <<>>
  /\ assembly = ReactAssembly
  /\ proceseedTypes = {}
  /\ module = <<>>
  /\ worklist = <<>>
  /\ thrown = "None"
  /\ output = <<>>
  /\ pc = Pc("parse", 0, 0, "create")
  /\ host = NewHost

NextLoad ==
  \/ NewActionBlock
  \/ Post
  \/ Complete
  \/ StartWork
  \/ \E work \in 1..MaxFiles : FinishWork(work)
  \/ CompleteBlock
  \/ AwaitCompletion
  \/ Cancel
  \/ CompileAndCheckForErrors

SpecLoad == InitLoad /\ [][NextLoad]_vars

(***************************************************************************)
(* Generate on its own: applied to every assembly model whose collections  *)
(* are sequences of distinct entries of the pools below.                   *)
(***************************************************************************)
ModulePool ==
  { ReactModule("TestClass", "TestClass", DefaultEventEmitterName),
    [ReactModule("Second", "Second", DefaultEventEmitterName)
       EXCEPT !.Methods = <<ReactMethod("ping", "ping", FALSE)>>] }

Entry(key, value) == [Key |-> key, Value |-> value]

DictionaryPool(entries) ==
  {d \in DistinctSeq(entries, Cardinality(entries)) :
     \A i, j \in DOMAIN d : i # j => d[i].Key # d[j].Key}

Assemblies ==
  [Modules : DistinctSeq(ModulePool, 2),
   ViewManagers : DistinctSeq({"C1", "S1"}, 2),
   SerializableTypes : DictionaryPool({Entry("E1", "Enum"), Entry("C1", "Class")}),
   JSReaderFunctions : DictionaryPool({Entry("int", "ReadInt"), Entry("S1", "ReadS1")}),
   JSWriterFunctions : DictionaryPool({Entry("int", "WriteInt"), Entry("S1", "WriteS1")})]

InitGen ==
  /\ assembly \in Assemblies
  /\ moduleAttrs = <<>>
  /\ members = <<>>
  /\ extensions = <<>>
  /\ diagnostics = <<>>
  /\ missing = {}
  /\ ReactTypes = "ReactTypes"
  /\ exitCode = <<>>
  /\ m_errors = <<>>
  /\ proceseedTypes = {}
  /\ module = <<>>
  /\ worklist = <<>>
  /\ thrown = "None"
  /\ output = <<>>
  /\ options = [SourceFiles |-> <<"a.cs">>, References |-> <<"r.dll">>]
  /\ ConcurrencyLevel = Unbounded
  /\ cancelled = FALSE
  /\ block = [queue |-> <<>>, running |-> {}, completed |-> TRUE,
              completion |-> "RanToCompletion"]
  /\ m_syntaxTrees = SetToBag({"a.cs"})
  /\ m_metadataReferences = SetToBag({"r.dll"})
  /\ pc = Pc("generate", 0, 0, "generate")
  /\ host = NewHost

SpecGen == InitGen /\ [][GenerateCode]_vars


(***************************************************************************)
(* The properties.                                                         *)
(***************************************************************************)
\* The modules extracted so far, the one under construction included.
ExtractedModules == assembly.Modules \o module

\* The [ReactModule] attribute of a module's type.
ModuleAttribute(m) == TryFindAttribute(GetAttributes(m.ModuleType), "ReactModule")[1]

HasNamed(attr, key) == \E i \in DOMAIN attr.NamedArguments : attr.NamedArguments[i].Key = key

\* The value of the named argument `key` of an attribute that has it.
NamedValue(attr, key) ==
  attr.NamedArguments[CHOOSE i \in DOMAIN attr.NamedArguments :
                        attr.NamedArguments[i].Key = key].Value

Positional(attr) ==
  IF Len(attr.ConstructorArguments) > 0 THEN attr.ConstructorArguments[1] ELSE NULL

\* The scan loop of AnalyzeAndFindTypes is past the module type TestClass.
Scanned ==
  \/ pc.phase = "scan" /\ pc.index > 1
  \/ pc.phase \in {"seed", "generate", "failed"}
  \/ pc.phase = "done" /\ exitCode = <<0>>

\* The run is over: Generate returned, or an exception ended the run.
Finished == pc.phase \in {"done", "failed"}

\* C1, as stated: the declared name of every extracted module is the
\* positional name if one is given, else the ModuleName named argument, else
\* the simple name of the type; the positional name wins over ModuleName.
C1_PositionalNameFirst ==
  \A i \in DOMAIN ExtractedModules :
    LET m == ExtractedModules[i]
        attr == ModuleAttribute(m)
    IN  m.ModuleName =
          IF Positional(attr) # NULL THEN Positional(attr)
          ELSE IF HasNamed(attr, "ModuleName") /\ NamedValue(attr, "ModuleName") # NULL
            THEN NamedValue(attr, "ModuleName")
          ELSE m.ModuleType

\* C1, amended: the declared name of every extracted module is the value of
\* the ModuleName named argument when that argument is present (the simple
\* name of the type when its value is null); without a ModuleName argument it
\* is the positional name if one is given and not null, else the simple name
\* of the type.  The ModuleName argument wins over the positional name.
C1_NamedArgumentOverridesPositional ==
  \A i \in DOMAIN ExtractedModules :
    LET m == ExtractedModules[i]
        attr == ModuleAttribute(m)
    IN  m.ModuleName =
          IF HasNamed(attr, "ModuleName")
          THEN (IF NamedValue(attr, "ModuleName") # NULL
                THEN NamedValue(attr, "ModuleName") ELSE m.ModuleType)
          ELSE IF Positional(attr) # NULL THEN Positional(attr)
          ELSE m.ModuleType

\* A module was extracted from a type that gives both a positional name and
\* a ModuleName argument, and the run went on to its end.
C1_Witness ==
  /\ pc.phase = "done"
  /\ \E i \in DOMAIN assembly.Modules :
       LET attr == ModuleAttribute(assembly.Modules[i]) IN
       /\ Positional(attr) = "Pos"
       /\ HasNamed(attr, "ModuleName")
       /\ NamedValue(attr, "ModuleName") = "Named"
       /\ assembly.Modules[i].ModuleName = "Named"

IsDelegateType(type) == TypeSymbols[type].TypeKind = "Delegate"

\* The classification C2 states for a parameter list.
ClaimedReturnType(parameters) ==
  LET n == Len(parameters) IN
  IF n >= 2 /\ IsDelegateType(parameters[n]) /\ IsDelegateType(parameters[n - 1])
    THEN "TwoCallbacks"
  ELSE IF n >= 1 /\ IsDelegateType(parameters[n]) THEN "Callback"
  ELSE IF \E i \in 1..n : parameters[i] = "Promise" THEN "Promise"
  ELSE "Void"

\* C2, as stated: every extracted method is classified by its parameters:
\* TwoCallbacks for two trailing delegates, Callback for one, Promise for a
\* promise parameter, Void otherwise; so a module with no explicit name and a
\* method getValue with a promise parameter is named after its type and holds
\* getValue classified Promise.
C2_MethodClassification ==
  \A i \in DOMAIN ExtractedModules :
    \A j \in DOMAIN ExtractedModules[i].Methods :
      LET method == ExtractedModules[i].Methods[j] IN
      method.ReturnType = ClaimedReturnType(Symbol(method.Method).Parameters)

\* The methods of the type Extensions and the shapes of a reader and of a
\* writer among them.
ExtensionsIndex == CHOOSE i \in DOMAIN Catalog : Catalog[i] = "Extensions"

\* The loop body of the scan returned normally for the type Extensions.
ExtensionsScanned ==
  /\ thrown = "None"
  /\ \/ pc.phase = "scan" /\ pc.index > ExtensionsIndex
     \/ pc.phase \in {"seed", "generate"}
     \/ pc.phase = "done" /\ exitCode = <<0>>

TwoParameterShape(method) ==
  /\ method.IsExtensionMethod
  /\ Len(method.Parameters) = 2
  /\ ~method.Parameters[2].IsTypeParameter

ReaderShape(method) ==
  /\ TwoParameterShape(method)
  /\ method.Parameters[1].Type = "JSValueReader"
  /\ method.Parameters[2].RefKind = "Out"

WriterShape(method) ==
  /\ TwoParameterShape(method)
  /\ method.Parameters[1].Type = "JSValueWriter"

\* The entries of the methods of Extensions that have a shape, in scan order.
RegistryOf(Shape(_)) ==
  LET declared == [i \in DOMAIN extensions |-> ExtensionSymbol(extensions[i])]
      chosen == SelectSeq(declared, Shape)
  IN  [i \in DOMAIN chosen |-> [Key |-> chosen[i].Parameters[2].Type,
                                Value |-> chosen[i].Name]]

NoDuplicateKeys(dictionary) ==
  \A i, j \in DOMAIN dictionary : i # j => dictionary[i].Key # dictionary[j].Key

\* C3, as stated: adding a type that is already in the serializable-type
\* mapping is a no-op: it does not fail and makes no second entry, also for an
\* enum type registered during the scan and reached again through a signature
\* (the extension registries, which fail on their own, have one candidate
\* for a type).
C3_ClosureIdempotent ==
  /\ (NoDuplicateKeys(RegistryOf(ReaderShape)) /\ NoDuplicateKeys(RegistryOf(WriterShape)))
       => thrown # "ArgumentException"
  /\ NoDuplicateKeys(assembly.SerializableTypes)

\* The members of TestClass are constants of the two local enum types, one
\* each, and TestClass is extracted as a module.
TwoEnumConstants ==
  /\ Len(members) = 2
  /\ {Symbol(members[i]).Type : i \in DOMAIN members} = {"E1", "E2"}
  /\ \A i \in DOMAIN members :
       TryFindAttribute(Symbol(members[i]).Attributes, "ReactConstant") # <<>>
  /\ TryFindAttribute(moduleAttrs, "ReactModule") # <<>>

\* C4, as stated: when two local enum types are reachable only through the
\* declared types of module constants, the analysis completes and the
\* serializable-type mapping holds exactly those two types, each as Enum.
C4_TwoEnumConstants ==
  (TwoEnumConstants /\ pc.phase \in {"generate", "done", "failed"}) =>
    /\ pc.phase # "failed"
    /\ thrown = "None"
    /\ Len(assembly.SerializableTypes) = 2
    /\ Range(assembly.SerializableTypes) = {Entry("E1", "Enum"), Entry("E2", "Enum")}

\* The marker the callback extraction at the current position looks for.
AttemptedMarker == IF pc.stage = "event" THEN "ReactEvent" ELSE "ReactFunction"

\* The step about to be taken is a callback extraction on a member that
\* carries the marker it looks for.
CallbackExtraction ==
  /\ pc.phase = "scan"
  /\ pc.stage \in {"event", "function"}
  /\ TryFindAttribute(CurrentMember.Attributes, AttemptedMarker) # <<>>

\* The step does not add the member to the module and appends the
\* "callbacks must be settable" diagnostic for it to the sink.
FailsNotSettable ==
  /\ module' = module
  /\ \E i \in (Len(m_errors) + 1)..Len(m_errors') :
       /\ m_errors'[i].Descriptor = "CallbacksMustBeSettable"
       /\ m_errors'[i].Symbol = CurrentMember.Name

\* A property whose setter is absent or neither public nor internal.
PropertyWithoutSetter(symbol) ==
  symbol.Kind = "Property" /\ symbol.SetMethod \notin {"Public", "Internal"}

CallbackKeys == {"FunctionName", "EventName", "ModuleName", "EventEmitterName"}

HasUnknownNamed(attr, known) ==
  \E i \in DOMAIN attr.NamedArguments : attr.NamedArguments[i].Key \notin known

\* C5, as stated: a callback extraction fails with the "callbacks must be
\* settable" diagnostic exactly when the member is a property without an
\* accessible setter, whatever other defects the member has (an unknown named
\* argument included); a field never produces it.
C5_NotSettableIffNoSetter ==
  [][CallbackExtraction =>
       (FailsNotSettable <=> PropertyWithoutSetter(CurrentMember))]_vars

\* C5, amended: a callback extraction fails with the "callbacks must be
\* settable" diagnostic exactly when the marker has no unknown named argument
\* and the member is a property without an accessible setter, whether or not
\* the member is accessible and its type a delegate; a field never produces it.
C5_NotSettableIffNoSetterAndKnownArguments ==
  [][CallbackExtraction =>
       (FailsNotSettable <=>
          /\ PropertyWithoutSetter(CurrentMember)
          /\ ~HasUnknownNamed(
                TryFindAttribute(CurrentMember.Attributes, AttemptedMarker)[1],
                CallbackKeys))]_vars

\* The sink holds the "callbacks must be settable" diagnostic of a property
\* that is also private and not of a delegate type.
C5_Witness ==
  \E i \in DOMAIN m_errors :
    /\ m_errors[i].Descriptor = "CallbacksMustBeSettable"
    /\ Symbol(m_errors[i].Symbol).DeclaredAccessibility = "Private"
    /\ ~IsDelegateType(Symbol(m_errors[i].Symbol).Type)
    /\ PropertyWithoutSetter(Symbol(m_errors[i].Symbol))

Accessible(accessibility) == accessibility \in {"Public", "Internal"}

\* The validation rules of the marker attributes: the member breaks one.
Malformed(symbol) ==
  \E i \in DOMAIN symbol.Attributes :
    LET attr == symbol.Attributes[i]
        cls == attr.AttributeClass
    IN
    \/ cls \in {"ReactMethod", "ReactSyncMethod"} /\ HasUnknownNamed(attr, {"MethodName"})
    \/ cls = "ReactConstant" /\ HasUnknownNamed(attr, {"ConstantName"})
    \/ cls \in {"ReactEvent", "ReactFunction"} /\ HasUnknownNamed(attr, CallbackKeys)
    \/ /\ cls \in {"ReactInitializer", "ReactConstantProvider"}
       /\ \/ ~Accessible(symbol.DeclaredAccessibility)
          \/ symbol.Type # "void"
          \/ symbol.Parameters # <<IF cls = "ReactInitializer" THEN "ReactContext"
                                   ELSE "ReactConstantProvider">>
    \/ /\ cls = "ReactConstant"
       /\ \/ ~Accessible(symbol.DeclaredAccessibility)
          \/ symbol.Kind = "Property" /\ ~Accessible(symbol.GetMethod)
    \/ /\ cls \in {"ReactEvent", "ReactFunction"}
       /\ \/ PropertyWithoutSetter(symbol)
          \/ ~Accessible(symbol.DeclaredAccessibility)
          \/ ~IsDelegateType(symbol.Type)
          \/ TypeSymbols[symbol.Type].invoke[1].ReturnType # "void"

\* An event member with a non-accessible setter: a property whose one marker
\* is [ReactEvent], with known named arguments only.
EventWithoutSetter(symbol) ==
  /\ PropertyWithoutSetter(symbol)
  /\ Len(symbol.Attributes) = 1
  /\ symbol.Attributes[1].AttributeClass = "ReactEvent"
  /\ ~HasUnknownNamed(symbol.Attributes[1], CallbackKeys)

\* TestClass is a module whose only malformed member is member k, an event
\* member with a non-accessible setter.
OnlyMalformedMember(k) ==
  /\ TryFindAttribute(moduleAttrs, "ReactModule") # <<>>
  /\ ~HasUnknownNamed(TryFindAttribute(moduleAttrs, "ReactModule")[1],
                      {"ModuleName", "EventEmitterName"})
  /\ EventWithoutSetter(Symbol(members[k]))
  /\ \A j \in DOMAIN members : j # k => ~Malformed(Symbol(members[j]))

\* The names of the members in the six sequences of a module.
MethodNames(m) == [i \in DOMAIN m.Methods |-> m.Methods[i].Method]
InitializerNames(m) == [i \in DOMAIN m.Initializers |-> m.Initializers[i].Method]
ConstantProviderNames(m) ==
  [i \in DOMAIN m.ConstantProviders |-> m.ConstantProviders[i].Method]
ConstantNames(m) == [i \in DOMAIN m.Constants |-> m.Constants[i].Symbol]
EventNames(m) == [i \in DOMAIN m.Events |-> m.Events[i].Symbol]
FunctionNames(m) == [i \in DOMAIN m.Functions |-> m.Functions[i].Symbol]

ExtractedNames(m) ==
  MethodNames(m) \o InitializerNames(m) \o ConstantProviderNames(m)
    \o ConstantNames(m) \o EventNames(m) \o FunctionNames(m)

\* C6: once the types are scanned, a module whose only malformed member is
\* an event member with a non-accessible setter has put exactly one
\* diagnostic in the sink: CallbacksMustBeSettable, for that member, at a
\* location other than Location.None; the member is in neither Events nor
\* Functions.
C6_SingleNotSettableDiagnostic ==
  \A k \in DOMAIN members :
    (OnlyMalformedMember(k) /\ pc.phase # "scan" /\ Scanned) =>
      /\ Len(m_errors) = 1
      /\ m_errors[1].Descriptor = "CallbacksMustBeSettable"
      /\ m_errors[1].Symbol = members[k]
      /\ m_errors[1].Location # LocationNone
      /\ \A i \in DOMAIN assembly.Modules :
           members[k] \notin Range(EventNames(assembly.Modules[i]))
                               \cup Range(FunctionNames(assembly.Modules[i]))

\* The run ended for a module of two members, the second one the event
\* member without a setter, the first one extracted.
C6_Witness ==
  /\ pc.phase = "done"
  /\ Len(members) = 2
  /\ OnlyMalformedMember(2)
  /\ Len(m_errors) = 1
  /\ \E i \in DOMAIN assembly.Modules :
       /\ assembly.Modules[i].ModuleType = "TestClass"
       /\ ExtractedNames(assembly.Modules[i]) = <<members[1]>>

\* The five categories in the order of the registration calls, each with
\* whether the assembly model has an element of it.
Categories ==
  << [Name |-> "CreateViewManagers", NonEmpty |-> assembly.ViewManagers # <<>>],
     [Name |-> "CreateModules", NonEmpty |-> assembly.Modules # <<>>],
     [Name |-> "CreateSerializers", NonEmpty |-> assembly.SerializableTypes # <<>>],
     [Name |-> "RegisterExtensionReaders", NonEmpty |-> assembly.JSReaderFunctions # <<>>],
     [Name |-> "RegisterExtensionWriter", NonEmpty |-> assembly.JSWriterFunctions # <<>>] >>

IsNonEmpty(category) == category.NonEmpty

\* The calls in the body of the generated CreatePackage method, by name.
RegistrationCalls(generated) ==
  [i \in DOMAIN generated.Members[1].From |-> generated.Members[1].From[i].Invoke]

\* How many members of the generated class, CreatePackage aside, are the
\* routine of that name.
RoutineCount(generated, name) ==
  Cardinality({i \in 2..Len(generated.Members) : generated.Members[i].Routine = name})

\* C7: the body of the generated CreatePackage method holds one call per
\* non-empty category, in the order view managers, modules, serializable
\* types, extension readers, extension writers, and none for an empty
\* category; the class has the routine of every emitted call once and no
\* routine of an omitted category.
C7_OneCallPerNonEmptyCategory ==
  output # <<>> =>
    /\ output[1].Members[1].Routine = "CreatePackage"
    /\ RegistrationCalls(output[1]) =
         [i \in DOMAIN SelectSeq(Categories, IsNonEmpty) |->
            SelectSeq(Categories, IsNonEmpty)[i].Name]
    /\ \A i \in DOMAIN Categories :
         RoutineCount(output[1], Categories[i].Name) =
           IF Categories[i].NonEmpty THEN 1 ELSE 0

\* Generate returned for a model with modules and extension readers and
\* nothing else: two calls, two routines.
C7_Witness ==
  /\ output # <<>>
  /\ assembly.ViewManagers = <<>>
  /\ Len(assembly.Modules) = 2
  /\ assembly.SerializableTypes = <<>>
  /\ assembly.JSReaderFunctions # <<>>
  /\ assembly.JSWriterFunctions = <<>>
  /\ RegistrationCalls(output[1]) = <<"CreateModules", "RegisterExtensionReaders">>
  /\ Len(output[1].Members) = 3

\* The position of a member in the declaration order of its type.
DeclarationIndex(type, name) ==
  CHOOSE i \in DOMAIN GetMembers(type) : GetMembers(type)[i].Name = name

Increasing(type, names) ==
  \A i, j \in DOMAIN names :
    i < j => DeclarationIndex(type, names[i]) < DeclarationIndex(type, names[j])

\* The sequence of the first shape, in the priority order, that accepts the
\* member; "None" when no shape does.
FirstAcceptingShape(symbol, m) ==
  IF symbol.Kind = "Method"
  THEN IF TryExtractMethod(symbol).ok THEN "Methods"
       ELSE IF TryExtractSyncMethod(symbol).ok THEN "SyncMethods"
       ELSE IF TryExtractInitializer(symbol).ok THEN "Initializers"
       ELSE IF TryExtractConstantProvider(symbol).ok THEN "ConstantProviders"
       ELSE "None"
  ELSE IF symbol.Kind \in {"Property", "Field"}
  THEN IF TryExtractConstant(symbol).ok THEN "Constants"
       ELSE IF TryExtractEvent(symbol, m.EventEmitterName).ok THEN "Events"
       ELSE IF TryExtractFunction(symbol, m.ModuleName).ok THEN "Functions"
       ELSE "None"
  ELSE "None"

\* The sequences of the module that hold the member, the two kinds of
\* method told apart.
Places(name, m) ==
  {"Methods" : i \in {i \in DOMAIN m.Methods :
                        m.Methods[i].Method = name /\ ~m.Methods[i].IsSynchroneous}}
  \cup {"SyncMethods" : i \in {i \in DOMAIN m.Methods :
                        m.Methods[i].Method = name /\ m.Methods[i].IsSynchroneous}}
  \cup {"Initializers" : i \in {i \in DOMAIN m.Initializers : m.Initializers[i].Method = name}}
  \cup {"ConstantProviders" : i \in {i \in DOMAIN m.ConstantProviders :
                                       m.ConstantProviders[i].Method = name}}
  \cup {"Constants" : i \in {i \in DOMAIN m.Constants : m.Constants[i].Symbol = name}}
  \cup {"Events" : i \in {i \in DOMAIN m.Events : m.Events[i].Symbol = name}}
  \cup {"Functions" : i \in {i \in DOMAIN m.Functions : m.Functions[i].Symbol = name}}

\* C9: every member of a module is in at most one of the six sequences, at
\* most once; each sequence keeps the declaration order; and when a module
\* is complete each of its members is in the sequence of the first shape, in
\* the order asynchronous method, synchronous method, initializer,
\* constant-provider / constant, event, function, that accepts it, and in no
\* sequence when none does.
C9_FirstAcceptingShapeOnly ==
  /\ \A k \in DOMAIN ExtractedModules :
       LET m == ExtractedModules[k] IN
       /\ \A i, j \in DOMAIN ExtractedNames(m) :
            i # j => ExtractedNames(m)[i] # ExtractedNames(m)[j]
       /\ Increasing(m.ModuleType, MethodNames(m))
       /\ Increasing(m.ModuleType, InitializerNames(m))
       /\ Increasing(m.ModuleType, ConstantProviderNames(m))
       /\ Increasing(m.ModuleType, ConstantNames(m))
       /\ Increasing(m.ModuleType, EventNames(m))
       /\ Increasing(m.ModuleType, FunctionNames(m))
  /\ \A k \in DOMAIN assembly.Modules :
       LET m == assembly.Modules[k] IN
       \A i \in DOMAIN GetMembers(m.ModuleType) :
         LET symbol == GetMembers(m.ModuleType)[i] IN
         Places(symbol.Name, m) =
           IF FirstAcceptingShape(symbol, m) = "None" THEN {}
           ELSE {FirstAcceptingShape(symbol, m)}

\* A complete module holds two constants in declaration order, the first of
\* them a member that carries two markers, and no event.
C9_Witness ==
  \E k \in DOMAIN assembly.Modules :
    LET m == assembly.Modules[k] IN
    /\ Len(m.Constants) = 2
    /\ ConstantNames(m) = members
    /\ Len(Symbol(members[1]).Attributes) = 2
    /\ m.Events = <<>>

\* C10, as stated: a member about which a diagnostic was recorded is in no
\* sequence of any module, and extraction raises no exception.
C10_FailureAbandonsMember ==
  /\ \A i \in DOMAIN m_errors :
       \A k \in DOMAIN ExtractedModules :
         m_errors[i].Symbol \notin Range(ExtractedNames(ExtractedModules[k]))
  /\ pc.phase = "scan" => thrown = "None"

\* The step about to be taken is the initializer (resp. constant-provider)
\* extraction of a member that carries that marker.
InitializerExtraction ==
  /\ pc.phase = "scan"
  /\ pc.stage = "initializer"
  /\ TryFindAttribute(CurrentMember.Attributes, "ReactInitializer") # <<>>

ConstantProviderExtraction ==
  /\ pc.phase = "scan"
  /\ pc.stage = "constantProvider"
  /\ TryFindAttribute(CurrentMember.Attributes, "ReactConstantProvider") # <<>>

\* The diagnostics the step appends to the sink.
NewErrors == SubSeq(m_errors', Len(m_errors) + 1, Len(m_errors'))

\* The first rule the method violates, in the order accessibility, return
\* type, parameter shape; "None" when it violates none.
FirstRuleViolated(method, capability) ==
  IF method.DeclaredAccessibility \notin {"Public", "Internal"} THEN "Accessibility"
  ELSE IF method.Type # "void" THEN "ReturnType"
  ELSE IF method.Parameters # <<capability>> THEN "ParameterShape"
  ELSE "None"

InitializerDescriptor ==
  [Accessibility |-> "InitializersMustBePublicOrInternal",
   ReturnType |-> "InitializersMustReturnVoid",
   ParameterShape |-> "InitializersMustHaveOneParameterOfTypeReactContext"]

ConstantProviderDescriptor ==
  [Accessibility |-> "ConstantProviderMustBePublicOrInternal",
   ReturnType |-> "ConstantProviderMustReturnVoid",
   ParameterShape |-> "ConstantProviderMustHaveOneParameterOfTypeReactContext"]

\* The step either appends the member to the sequence and records nothing,
\* or leaves the module alone and records the one diagnostic of the first
\* rule violated.
ExtractsOrReportsFirstViolation(sequence, rule, descriptor) ==
  IF rule = "None"
  THEN /\ NewErrors = <<>>
       /\ module'[1][sequence] = Append(module[1][sequence], [Method |-> CurrentMember.Name])
  ELSE /\ module' = module
       /\ Len(NewErrors) = 1
       /\ NewErrors[1].Descriptor = descriptor[rule]
       /\ NewErrors[1].Symbol = CurrentMember.Name

\* C11: the initializer (resp. constant-provider) extraction of a member
\* that carries the marker adds it to Initializers (resp. ConstantProviders)
\* exactly when it is public or internal, returns nothing and takes exactly
\* one parameter of the module-context (resp. constant-provider) type;
\* otherwise it records exactly one diagnostic: the accessibility one, the
\* return-type one or the parameter-shape one, by the first rule violated.
C11_InitializerAndProviderRules ==
  [][/\ InitializerExtraction =>
          ExtractsOrReportsFirstViolation("Initializers",
            FirstRuleViolated(CurrentMember, "ReactContext"), InitializerDescriptor)
     /\ ConstantProviderExtraction =>
          ExtractsOrReportsFirstViolation("ConstantProviders",
            FirstRuleViolated(CurrentMember, "ReactConstantProvider"),
            ConstantProviderDescriptor)]_vars

\* An initializer that is public, returns a value and takes two parameters
\* got the return-type diagnostic only, and a well-formed initializer
\* declared before it was extracted.
C11_Witness ==
  /\ pc.phase = "done"
  /\ members = <<"init", "initRet">>
  /\ Len(m_errors) = 1
  /\ m_errors[1].Descriptor = "InitializersMustReturnVoid"
  /\ assembly.Modules[1].Initializers = <<[Method |-> "init"]>>

\* The step about to be taken is the constant extraction of a member that
\* carries the constant marker.
ConstantExtraction ==
  /\ pc.phase = "scan"
  /\ pc.stage = "constant"
  /\ TryFindAttribute(CurrentMember.Attributes, "ReactConstant") # <<>>

\* The member is public or internal and, when a property, has a getter that
\* is public or internal.
ConstantRulesMet(symbol) ==
  /\ symbol.DeclaredAccessibility \in {"Public", "Internal"}
  /\ symbol.Kind = "Property" => symbol.GetMethod \in {"Public", "Internal"}

\* C12: every member in Constants is public or internal and, when it is a
\* property, has a public or internal getter; the constant extraction of a
\* marked member that breaks a rule does not add it to Constants and records
\* one diagnostic, which (the marker having no unknown named argument) is
\* must-be-public-or-internal when the member is neither, else
\* must-be-gettable.
C12_ConstantRules ==
  [][/\ module' # <<>> =>
          \A i \in DOMAIN module'[1].Constants :
            ConstantRulesMet(Symbol(module'[1].Constants[i].Symbol))
     /\ (ConstantExtraction /\ ~ConstantRulesMet(CurrentMember)) =>
          /\ module' = module
          /\ Len(NewErrors) = 1
          /\ NewErrors[1].Symbol = CurrentMember.Name
          /\ ~HasUnknownNamed(
                TryFindAttribute(CurrentMember.Attributes, "ReactConstant")[1],
                {"ConstantName"}) =>
               NewErrors[1].Descriptor =
                 IF CurrentMember.DeclaredAccessibility \notin {"Public", "Internal"}
                 THEN "ConstantsMustBePublicOrInternal"
                 ELSE "ConstantsMustBeGettable"]_vars

\* A private property with a private getter got the
\* must-be-public-or-internal diagnostic, a public property without a getter
\* the must-be-gettable one, and neither is a constant of the module.
C12_Witness ==
  /\ pc.phase = "done"
  /\ members = <<"constHidden", "constNoGet">>
  /\ [i \in DOMAIN m_errors |-> m_errors[i].Descriptor] =
       <<"ConstantsMustBePublicOrInternal", "ConstantsMustBeGettable">>
  /\ assembly.Modules[1].Constants = <<>>

\* The entry is a property or field that is public or internal, with a
\* public or internal setter when a property, of a delegate type whose
\* invocation method returns nothing and has the entry's parameters.
WellFormedCallback(callback) ==
  LET symbol == Symbol(callback.Symbol) IN
  /\ symbol.Kind \in {"Property", "Field"}
  /\ symbol.DeclaredAccessibility \in {"Public", "Internal"}
  /\ symbol.Kind = "Property" => symbol.SetMethod \in {"Public", "Internal"}
  /\ TypeSymbols[symbol.Type].TypeKind = "Delegate"
  /\ TypeSymbols[symbol.Type].invoke[1].ReturnType = "void"
  /\ callback.CallbackParameters = TypeSymbols[symbol.Type].invoke[1].Parameters

\* C13: every entry of Events and of Functions of every module is a
\* property or field that is public or internal, whose setter (of a
\* property) is accessible and whose type is a delegate whose invocation
\* method returns nothing; its callback parameters are the parameters of
\* that invocation method.
C13_CallbacksWellFormed ==
  \A k \in DOMAIN ExtractedModules :
    /\ \A i \in DOMAIN ExtractedModules[k].Events :
         WellFormedCallback(ExtractedModules[k].Events[i])
    /\ \A i \in DOMAIN ExtractedModules[k].Functions :
         WellFormedCallback(ExtractedModules[k].Functions[i])

\* A module holds an event of a delegate type of two parameters and a
\* function of a delegate type of one.
C13_Witness ==
  \E k \in DOMAIN assembly.Modules :
    LET m == assembly.Modules[k] IN
    /\ Len(m.Events) = 1
    /\ Len(m.Events[1].CallbackParameters) = 2
    /\ Len(m.Functions) = 1
    /\ Len(m.Functions[1].CallbackParameters) = 1
    /\ Symbol(m.Functions[1].Symbol).Kind = "Property"

\* The marker attributes whose named arguments the extraction reads, each
\* with the named arguments it knows.
KnownNamedArguments ==
  [ReactModule |-> {"ModuleName", "EventEmitterName"},
   ReactMethod |-> {"MethodName"},
   ReactSyncMethod |-> {"MethodName"},
   ReactConstant |-> {"ConstantName"},
   ReactEvent |-> CallbackKeys,
   ReactFunction |-> CallbackKeys]

\* The marker a position of the member loop looks for.
MarkerOfStage ==
  [method |-> "ReactMethod", syncMethod |-> "ReactSyncMethod",
   constant |-> "ReactConstant", event |-> "ReactEvent", function |-> "ReactFunction"]

\* The element has a marker of that class with an unknown named argument.
HasUnknownOn(attributes, cls) ==
  /\ TryFindAttribute(attributes, cls) # <<>>
  /\ HasUnknownNamed(TryFindAttribute(attributes, cls)[1], KnownNamedArguments[cls])

\* The step records the unexpected-property diagnostic, and nothing else,
\* for the element.
ReportsUnexpectedProperty(name) ==
  /\ Len(NewErrors) = 1
  /\ NewErrors[1].Descriptor = "UnexpectedPropertyInAttribute"
  /\ NewErrors[1].Symbol = name

\* The markers the member loop looks for on a member of that kind.
MemberMarkers(symbol) ==
  IF symbol.Kind = "Method" THEN {"ReactMethod", "ReactSyncMethod"}
  ELSE IF symbol.Kind \in {"Property", "Field"}
    THEN {"ReactConstant", "ReactEvent", "ReactFunction"}
  ELSE {}

\* C14, as stated: once the members of a module type were gone over, every
\* member marker with an unknown named argument has an unexpected-property
\* diagnostic for its member in the sink.
C14_EveryUnknownArgumentReported ==
  (/\ Scanned
   /\ TryFindAttribute(moduleAttrs, "ReactModule") # <<>>
   /\ ~HasUnknownOn(moduleAttrs, "ReactModule")) =>
    \A i \in DOMAIN members :
      \A cls \in MemberMarkers(Symbol(members[i])) :
        HasUnknownOn(Symbol(members[i]).Attributes, cls) =>
          \E j \in DOMAIN m_errors :
            /\ m_errors[j].Descriptor = "UnexpectedPropertyInAttribute"
            /\ m_errors[j].Symbol = members[i]

\* C14, amended: an extraction that examines a marker with an unknown named
\* argument (the module marker, or the marker of a shape that the member
\* loop reaches for the member) records the unexpected-property diagnostic
\* for the element and does not extract it under that marker; for the module
\* marker the type gets no module and the member loop is not entered.  No
\* module in the list has a module marker with an unknown named argument.
C14_ExaminedUnknownArgumentReported ==
  [][/\ (/\ pc.phase = "scan"
         /\ pc.stage = "module"
         /\ HasUnknownOn(GetAttributes(CurrentType), "ReactModule")) =>
          /\ ReportsUnexpectedProperty(CurrentType)
          /\ module' = <<>>
          /\ pc' = [pc EXCEPT !.stage = "register"]
     /\ (/\ pc.phase = "scan"
         /\ pc.stage \in DOMAIN MarkerOfStage
         /\ HasUnknownOn(CurrentMember.Attributes, MarkerOfStage[pc.stage])) =>
          /\ ReportsUnexpectedProperty(CurrentMember.Name)
          /\ module' = module
     /\ \A k \in DOMAIN assembly'.Modules :
          ~HasUnknownOn(GetAttributes(assembly'.Modules[k].ModuleType), "ReactModule")]_vars

\* The run ended for a module type whose marker has an unknown named
\* argument: one diagnostic, for the type, and the type is no module.
C14_Witness ==
  /\ pc.phase = "done"
  /\ HasUnknownOn(moduleAttrs, "ReactModule")
  /\ Len(members) = 2
  /\ Len(m_errors) = 1
  /\ m_errors[1].Descriptor = "UnexpectedPropertyInAttribute"
  /\ m_errors[1].Symbol = "TestClass"
  /\ \A k \in DOMAIN assembly.Modules : assembly.Modules[k].ModuleType # "TestClass"

\* The types of the signatures of the extracted modules: return and
\* parameter types of the methods, declared types of the constants,
\* parameter types of the callbacks.
SeedTypes ==
  UNION {Range(SeedCalls(assembly.Modules[k])) : k \in DOMAIN assembly.Modules}

\* The types reached from a set of types through the invocation methods of
\* the delegate types among them.
RECURSIVE ReachedFrom(_)
ReachedFrom(types) ==
  LET more == types \cup
                UNION {{TypeSymbols[t].invoke[1].ReturnType}
                         \cup Range(TypeSymbols[t].invoke[1].Parameters) :
                       t \in {d \in types : TypeSymbols[d].TypeKind = "Delegate"}}
  IN  IF more = types THEN types ELSE ReachedFrom(more)

\* C15, as stated: no delegate type and no type of another assembly is ever
\* a key of the serializable-type mapping, and when the closure is over
\* every local named type that is no delegate and is reached from the seeds
\* (every method's return and parameter types, every constant's type, every
\* callback's parameter types) is in the mapping under its own kind.
C15_ClosureFromEverySignature ==
  /\ \A i \in DOMAIN assembly.SerializableTypes :
       LET type == assembly.SerializableTypes[i].Key IN
       /\ TypeSymbols[type].TypeKind # "Delegate"
       /\ TypeSymbols[type].local
       /\ assembly.SerializableTypes[i].Value = TypeSymbols[type].TypeKind
  /\ pc.phase \in {"generate", "done", "failed"} =>
       \A type \in ReachedFrom(SeedTypes) :
         (/\ TypeSymbols[type].named
          /\ TypeSymbols[type].local
          /\ TypeSymbols[type].TypeKind # "Delegate") =>
           \E i \in DOMAIN assembly.SerializableTypes :
             assembly.SerializableTypes[i] = Entry(type, TypeSymbols[type].TypeKind)

(***************************************************************************)
(* C16 and C17: the registry of extension readers and writers.             *)
(***************************************************************************)
\* C16: every entry of the reader registry is a method of reader shape under
\* the type of its second parameter, every entry of the writer registry is a
\* method of writer shape under the type of its second parameter, and once
\* the scan of the type returned normally the two registries hold exactly
\* the methods of these shapes, in scan order.
C16_RegistersExactlyReadersAndWriters ==
  /\ \A i \in DOMAIN assembly.JSReaderFunctions :
       \E j \in DOMAIN RegistryOf(ReaderShape) :
         RegistryOf(ReaderShape)[j] = assembly.JSReaderFunctions[i]
  /\ \A i \in DOMAIN assembly.JSWriterFunctions :
       \E j \in DOMAIN RegistryOf(WriterShape) :
         RegistryOf(WriterShape)[j] = assembly.JSWriterFunctions[i]
  /\ ExtensionsScanned =>
       /\ assembly.JSReaderFunctions = RegistryOf(ReaderShape)
       /\ assembly.JSWriterFunctions = RegistryOf(WriterShape)

\* A reader was registered and the other method of the type was not.
C16_Witness ==
  /\ ExtensionsScanned
  /\ Len(extensions) = 2
  /\ Len(assembly.JSReaderFunctions) = 1
  /\ assembly.JSWriterFunctions = <<>>
  /\ \E i \in DOMAIN extensions :
       /\ ExtensionSymbol(extensions[i]).Parameters[1].Type = "JSValueReader"
       /\ ExtensionSymbol(extensions[i]).Name # assembly.JSReaderFunctions[1].Value

\* Two methods of Extensions with the same shape and the same second
\* parameter type.
SameTarget(Shape(_)) ==
  \E i, j \in DOMAIN RegistryOf(Shape) :
    i < j /\ RegistryOf(Shape)[i].Key = RegistryOf(Shape)[j].Key

\* The last entry of a registry for every key.
LastWins(registry) ==
  SelectSeq(registry,
            LAMBDA e : e = registry[CHOOSE j \in DOMAIN registry :
                                      /\ registry[j].Key = e.Key
                                      /\ \A k \in DOMAIN registry :
                                           registry[k].Key = e.Key => k <= j])

\* C17, as stated: with several reader or writer candidates for one type the
\* analysis does not fail, and once the scan is past the type each registry
\* maps the type to the candidate scanned last.
C17_LastRegisteredWins ==
  (SameTarget(ReaderShape) \/ SameTarget(WriterShape)) =>
    /\ thrown = "None"
    /\ ExtensionsScanned =>
         /\ \A e \in Range(LastWins(RegistryOf(ReaderShape))) :
              e \in Range(assembly.JSReaderFunctions)
         /\ \A e \in Range(LastWins(RegistryOf(WriterShape))) :
              e \in Range(assembly.JSWriterFunctions)

(***************************************************************************)
(* C18, C19 and C20: the compilation step and the exit code of App.Run.    *)
(***************************************************************************)
\* The required types whose lookup fails: the assembly is not referenced,
\* or it has no such type.
Unresolved ==
  {i \in DOMAIN RequiredTypes :
     RequiredTypes[i].Assembly \in missing \/ RequiredTypes[i].Type \in missing}

CantFindDiagnostics ==
  SelectSeq(m_errors, LAMBDA d : d.Descriptor = "CantFindReferenceAssembly")

\* Nothing of AnalyzeAndFindTypes or of Generate has happened.
NothingAnalyzedOrGenerated ==
  /\ pc.phase \in {"compile", "done"}
  /\ assembly = ReactAssembly
  /\ module = <<>>
  /\ proceseedTypes = {}
  /\ worklist = <<>>
  /\ output = <<>>

\* C18: when a required type does not resolve, the compilation step adds one
\* CantFindReferenceAssembly diagnostic for every failed lookup, naming the
\* assembly or the type, ReactTypes stays unset, App.Run returns 1, and no
\* type is scanned, no closure collected and no code generated.
C18_UnresolvedTypeStopsRun ==
  (Unresolved # {} /\ pc.phase # "compile") =>
    /\ Len(CantFindDiagnostics) = Cardinality(Unresolved)
    /\ \A i \in Unresolved :
         \E j \in DOMAIN CantFindDiagnostics :
           /\ CantFindDiagnostics[j].Location = LocationNone
           /\ CantFindDiagnostics[j].Symbol
                \in {RequiredTypes[i].Assembly, RequiredTypes[i].Type}
    /\ ReactTypes = NULL
    /\ exitCode = <<1>>
    /\ NothingAnalyzedOrGenerated

\* A run whose compilation lacks the reference to Microsoft.ReactNative.Managed.
C18_Witness ==
  /\ missing = {ReactNativeManagedAssemblyName}
  /\ pc.phase = "done"
  /\ exitCode = <<1>>
  /\ Len(m_errors) = 19

\* The compilation step recorded an error of the compiler.
CompileErrorRecorded ==
  /\ pc.phase # "compile"
  /\ \E i \in DOMAIN diagnostics : diagnostics[i].Severity = "Error"

\* C19, as stated: once the compilation step recorded a compile error, the
\* required types are not loaded, no type is scanned, no closure collected
\* and no code generated.
C19_CompileErrorAborts ==
  CompileErrorRecorded =>
    /\ ReactTypes = NULL
    /\ CantFindDiagnostics = <<>>
    /\ NothingAnalyzedOrGenerated

\* The severity of a diagnostic in the sink.
SeverityOf(diagnostic) ==
  IF "Severity" \in DOMAIN diagnostic THEN diagnostic.Severity
  ELSE DescriptorSeverity(diagnostic.Descriptor)

\* C20, as stated: when App.Run returns and the sink holds a diagnostic of
\* severity Error, the exit code is not 0.
C20_ErrorInSinkGivesNonZeroExit ==
  (pc.phase = "done" /\ \E i \in DOMAIN m_errors : SeverityOf(m_errors[i]) = "Error") =>
    exitCode # <<0>>

(***************************************************************************)
(* C21: generation is not gated on the diagnostics of the extraction.      *)
(***************************************************************************)
\* C21, as stated: once the compilation step succeeded, a run that is over
\* has generated the code and returned 0, whatever the extraction appended
\* to the sink.
C21_GenerateAlwaysReached ==
  (TryCompileAndCheckForErrors /\ Finished) =>
    /\ pc.phase = "done"
    /\ output # <<>>
    /\ exitCode = <<0>>

(***************************************************************************)
(* C24: the names of the callbacks.                                        *)
(***************************************************************************)
\* The value an attribute gives under a key of its named arguments, an
\* absent argument and a null value both counting as not given.
Given(attr, key) == IF HasNamed(attr, key) THEN NamedValue(attr, key) ELSE NULL

\* The name an attribute gives: the named argument under key when it is
\* present, the positional argument otherwise.
GivenName(attr, key) ==
  IF HasNamed(attr, key) THEN NamedValue(attr, key) ELSE Positional(attr)

\* A callback of a module has the names its attribute gives, and the
\* defaults where the attribute gives none.
NamedAsDeclared(callback, marker, nameKey, contextKey, defaultContext) ==
  LET member == Symbol(callback.Symbol)
      attr == TryFindAttribute(member.Attributes, marker)[1]
  IN  /\ callback.Name =
           IF GivenName(attr, nameKey) # NULL THEN GivenName(attr, nameKey)
           ELSE member.Name
      /\ callback.CallbackContextName =
           IF Given(attr, contextKey) # NULL THEN Given(attr, contextKey)
           ELSE defaultContext

\* C24: every event of a module has the EventEmitterName of its own
\* attribute as context name, else the event emitter name of the module
\* (the EventEmitterName of the module attribute, else the library default);
\* every function has the ModuleName of its own attribute, else the name of
\* the module; the name of a callback is the name its attribute gives, else
\* the declared name of the member.
C24_CallbackNames ==
  \A i \in DOMAIN ExtractedModules :
    LET m == ExtractedModules[i] IN
    /\ m.EventEmitterName =
         IF Given(ModuleAttribute(m), "EventEmitterName") # NULL
         THEN Given(ModuleAttribute(m), "EventEmitterName")
         ELSE "RCTDeviceEventEmitter"
    /\ \A j \in DOMAIN m.Events :
         NamedAsDeclared(m.Events[j], "ReactEvent", "EventName", "EventEmitterName",
                         m.EventEmitterName)
    /\ \A j \in DOMAIN m.Functions :
         NamedAsDeclared(m.Functions[j], "ReactFunction", "FunctionName", "ModuleName",
                         m.ModuleName)

\* A module that names its event emitter and itself, with an event and a
\* function that name neither.
C24_Witness ==
  /\ pc.phase = "done"
  /\ members = <<"fnPlain", "evOk">>
  /\ \E i \in DOMAIN assembly.Modules :
       LET m == assembly.Modules[i] IN
       /\ m.ModuleType = "TestClass"
       /\ Len(m.Events) = 1 /\ m.Events[1].CallbackContextName = "Emitter"
       /\ Len(m.Functions) = 1 /\ m.Functions[1].CallbackContextName = "Named"
       /\ m.Events[1].Name = "evOk"

(***************************************************************************)
(* C25: the closure terminates.                                            *)
(***************************************************************************)
\* A call of AddSerializableType visits the signature of a delegate.
VisitsSignature ==
  /\ pc.phase = "seed"
  /\ worklist # <<>>
  /\ worklist' # Tail(worklist)
  /\ pc'.phase = "seed"

\* C25: a call of AddSerializableType visits the signature of a type only
\* when the type is not in the processed set and has been put there, so no
\* type is expanded twice, and the closure comes to an end (the generation
\* or an exception) for every type graph, those with a delegate that leads
\* back to itself included.
C25_ClosureTerminates ==
  /\ [][VisitsSignature =>
          /\ Head(worklist) \notin proceseedTypes
          /\ Head(worklist) \in proceseedTypes']_vars
  /\ (pc.phase = "seed") ~> (pc.phase \in {"generate", "failed"})

\* The closure is over and went through the delegate D2, whose only
\* parameter is a D2, and through D1, which has a D1 parameter.
C25_Witness ==
  /\ pc.phase = "generate"
  /\ {"D1", "D2"} \subseteq proceseedTypes

(***************************************************************************)
(* C26: what changes the assembly model, and when.                         *)
(***************************************************************************)
\* The loop over the types of the compilation has not finished.
ExtractionPass == pc.phase \in {"compile", "scan"}

RegistriesUnchanged ==
  /\ assembly'.JSReaderFunctions = assembly.JSReaderFunctions
  /\ assembly'.JSWriterFunctions = assembly.JSWriterFunctions

ModelUnchanged ==
  /\ assembly'.Modules = assembly.Modules
  /\ assembly'.ViewManagers = assembly.ViewManagers

\* The entries a step adds to the serializable-type mapping.
AddedSerializableTypes ==
  {assembly'.SerializableTypes[i] : i \in DOMAIN assembly'.SerializableTypes}
    \ {assembly.SerializableTypes[i] : i \in DOMAIN assembly.SerializableTypes}

\* C26, as stated: no step after the extraction pass changes the module list
\* or the view managers, and no step of the extraction pass adds to the
\* serializable-type mapping or to the two registries.
C26_MappingsOnlyAfterExtraction ==
  [][/\ ~ExtractionPass => ModelUnchanged
     /\ ExtractionPass => (AddedSerializableTypes = {} /\ RegistriesUnchanged)]_vars

\* C26, amended: no step after the extraction pass changes the module list,
\* the view managers or the two registries; the registries are filled by the
\* extraction pass itself, which also adds the enum types of the compilation
\* to the serializable-type mapping and nothing else; every other entry of
\* the mapping is added after the pass.
C26_ModelFixedAfterExtraction ==
  [][/\ ~ExtractionPass => (ModelUnchanged /\ RegistriesUnchanged)
     /\ ExtractionPass => \A e \in AddedSerializableTypes : e.Value = "Enum"]_vars

\* The pass is over and has left a module, a view manager, an enum type and
\* an extension reader.
C26_Witness ==
  /\ pc.phase = "generate"
  /\ assembly.Modules # <<>>
  /\ assembly.ViewManagers # <<>>
  /\ assembly.JSReaderFunctions # <<>>
  /\ \E i \in DOMAIN assembly.SerializableTypes :
       assembly.SerializableTypes[i].Value = "Enum"

(***************************************************************************)
(* C27: the type catalog.                                                  *)
(***************************************************************************)
\* The types a type declaration declares: itself and the types nested in it.
RECURSIVE DeclaredBy(_)
DeclaredBy(type) ==
  {type.Name} \cup UNION {DeclaredBy(type.TypeMembers[i]) : i \in DOMAIN type.TypeMembers}

\* The types declared in a namespace and in the namespaces within it.
RECURSIVE DeclaredTypes(_)
DeclaredTypes(namespaceSymbol) ==
  UNION {DeclaredBy(namespaceSymbol.TypeMembers[i]) :
           i \in DOMAIN namespaceSymbol.TypeMembers}
    \cup UNION {DeclaredTypes(namespaceSymbol.NamespaceMembers[i]) :
                  i \in DOMAIN namespaceSymbol.NamespaceMembers}

\* Global namespaces of other shapes: without a type, with types three deep,
\* with namespaces that hold namespaces only, with types after namespaces.
NamespacePool ==
  { GlobalNamespace,
    Namespace(<<>>, <<>>),
    Namespace(<<NamedType("A", <<NamedType("B", <<NamedType("C", <<>>)>>),
                                 NamedType("D", <<>>)>>)>>, <<>>),
    Namespace(<<>>, <<Namespace(<<>>, <<Namespace(<<NamedType("A", <<>>)>>, <<>>)>>),
                      Namespace(<<NamedType("B", <<NamedType("C", <<>>)>>)>>, <<>>)>>),
    Namespace(<<NamedType("A", <<>>)>>,
              <<Namespace(<<NamedType("B", <<>>)>>, <<>>),
                Namespace(<<NamedType("C", <<>>)>>,
                          <<Namespace(<<NamedType("D", <<NamedType("E", <<>>)>>)>>,
                                      <<>>)>>)>>) }

NoDuplicates(sequence) ==
  \A i, j \in DOMAIN sequence : i # j => sequence[i] # sequence[j]

\* The pass over the catalog returned normally.
CatalogScanned ==
  /\ thrown = "None"
  /\ \/ pc.phase \in {"seed", "generate"}
     \/ pc.phase = "done" /\ exitCode = <<0>>

\* C27: the catalog lists every declared type of the compilation, the
\* nested types and the types of nested namespaces included, exactly once;
\* no type is twice in the module list; the view managers hold no type
\* twice and no abstract type, and after the pass exactly the types that are
\* not abstract and implement IViewManager.
C27_CatalogExactlyOnce ==
  /\ \A namespaceSymbol \in NamespacePool :
       /\ Range(CollectTypes(namespaceSymbol)) = DeclaredTypes(namespaceSymbol)
       /\ NoDuplicates(CollectTypes(namespaceSymbol))
  /\ NoDuplicates([i \in DOMAIN ExtractedModules |-> ExtractedModules[i].ModuleType])
  /\ NoDuplicates(assembly.ViewManagers)
  /\ \A i \in DOMAIN assembly.ViewManagers :
       /\ ~IsAbstract(assembly.ViewManagers[i])
       /\ "IViewManager" \in AllInterfaces(assembly.ViewManagers[i])
  /\ CatalogScanned =>
       Range(assembly.ViewManagers) =
         {type \in DeclaredTypes(GlobalNamespace) :
            ~IsAbstract(type) /\ "IViewManager" \in AllInterfaces(type)}

\* The pass went over the nested enums, the types of the nested namespaces
\* and the abstract view manager A1, and left two modules and one view
\* manager.
C27_Witness ==
  /\ pc.phase = "generate"
  /\ {"E1", "Second", "A1"} \subseteq Range(Catalog)
  /\ Len(assembly.Modules) = 2
  /\ assembly.ViewManagers = <<"C1">>
  /\ \E i \in DOMAIN assembly.SerializableTypes : assembly.SerializableTypes[i].Key = "E2"

(***************************************************************************)
(* C22 and C23: the worker pool of the two load operations.                *)
(***************************************************************************)
\* The files that exist among the paths of an option, each under one name
\* whatever the case and the blanks it was given with.
ExistingFiles(paths) ==
  {FoldCase(Trim(paths[i])) : i \in {j \in DOMAIN paths : FileExists(Trim(paths[j]))}}

\* A bag holds one entry for every file of a set and nothing else.
OneOfEach(bag, files) ==
  /\ BagCardinality(bag) = Cardinality(files)
  /\ {FoldCase(path) : path \in BagToSet(bag)} = files

\* ParseSourceFilesAsync and LoadMetadataReferencesAsync returned normally.
ParseCompleted == pc.phase \in {"load", "compile", "scan", "done"}

LoadCompleted == pc.phase \in {"compile", "scan", "done"}

\* C22: no more than ConcurrencyLevel units of work run at a time when a
\* level is set; a parse operation that completed left exactly one syntax
\* tree for every source file posted, and a load operation that completed
\* exactly one metadata reference for every reference posted, whatever the
\* order in which the workers ran.
C22_BoundedPoolNoLostWork ==
  /\ ConcurrencyLevel # Unbounded => Cardinality(block.running) <= ConcurrencyLevel
  /\ ParseCompleted => OneOfEach(m_syntaxTrees, ExistingFiles(options.SourceFiles))
  /\ LoadCompleted => OneOfEach(m_metadataReferences, ExistingFiles(options.References))

\* Two source files and a reference were loaded by a pool of one worker.
C22_Witness ==
  /\ pc.phase = "compile"
  /\ ConcurrencyLevel = 1
  /\ ~cancelled
  /\ BagCardinality(m_syntaxTrees) = 2
  /\ BagCardinality(m_metadataReferences) = 1

\* C23: once the token is signalled no unit of work is started; a block
\* whose completion was pending when the token was signalled ends cancelled;
\* after a block was cancelled the run ends with TaskCanceledException and
\* goes to no further step of App.Run; the compilation step does not run to
\* its end once the token is signalled, and when it did run every posted
\* source file and reference had been loaded.
C23_CancellationStopsLoad ==
  /\ [][cancelled => block'.running \subseteq block.running]_vars
  /\ [][(cancelled /\ block.completion = "Pending")
          => block'.completion \in {"Pending", "Canceled"}]_vars
  /\ [][block.completion = "Canceled"
          => /\ pc'.phase \in {pc.phase, "failed"}
             /\ pc'.phase = "failed" => thrown' = "TaskCanceledException"]_vars
  /\ [][(cancelled /\ pc.phase = "compile") => pc'.phase \in {"compile", "failed"}]_vars
  /\ [](pc.phase \in {"scan", "done"} =>
          /\ OneOfEach(m_syntaxTrees, ExistingFiles(options.SourceFiles))
          /\ OneOfEach(m_metadataReferences, ExistingFiles(options.References)))

\* The key was pressed while the first of two source files was being read:
\* the second was never started and the run ended with the exception.
C23_Witness ==
  /\ cancelled
  /\ pc.phase = "failed"
  /\ thrown = "TaskCanceledException"
  /\ Cardinality(ExistingFiles(options.SourceFiles)) = 2
  /\ BagCardinality(m_syntaxTrees) = 1
  /\ m_metadataReferences = EmptyBag

(***************************************************************************)
(* C28: the assertions of the pipeline.                                    *)
(***************************************************************************)
\* C28, as stated: the compilation step is reached with a syntax tree and a
\* metadata reference loaded and no assertion of the analyzer fails, also
\* when no path of the options names a file that exists; the scan of the
\* types is reached after the compilation step only.
C28_AssertionsHold ==
  /\ pc.phase = "compile" =>
       (m_syntaxTrees # EmptyBag /\ m_metadataReferences # EmptyBag)
  /\ thrown # "ContractAssertFailure"
  /\ pc.phase = "scan" => ReactTypes # NULL

(***************************************************************************)
(* C29, C30: the package builder and the instance settings of the host.    *)
(***************************************************************************)
\* The CreatePackage calls made on one provider.
CallsOn(packageProvider) ==
  {i \in DOMAIN host.created : host.created[i].packageProvider = packageProvider}

OnlyDuringFirstReload ==
  \A i \in DOMAIN host.created : host.created[i].reload = 1

\* C29, as stated: the package builder is made at most once, CreatePackage is
\* called at most once on each provider, and only during the first
\* ReloadInstance.
C29_OncePerProvider ==
  /\ host.builders <= 1
  /\ OnlyDuringFirstReload
  /\ \A packageProvider \in PackageProviderPool :
       Cardinality(CallsOn(packageProvider)) <= 1

\* C29, amended: the package builder is made at most once; the first
\* ReloadInstance calls CreatePackage once for each entry of the provider
\* vector as it is then, in order (twice on a provider the vector holds
\* twice, not at all when no vector is set); no call is made before it or
\* after it, whatever is appended or set afterwards.
C29_OncePerEntryAtFirstReload ==
  /\ [](host.builders <= 1 /\ OnlyDuringFirstReload)
  /\ [](host.reloads = 0 => host.created = <<>> /\ host.m_packageBuilder = <<>>)
  /\ [][(host.reloads = 0 /\ host'.reloads = 1) =>
          /\ Len(host'.created) =
               IF host.m_packageProviders = <<>> THEN 0
               ELSE Len(host.m_packageProviders[1])
          /\ \A i \in DOMAIN host'.created :
               host'.created[i].packageProvider = host.m_packageProviders[1][i]]_vars
  /\ [][host.reloads >= 1 =>
          /\ host'.created = host.created
          /\ host'.m_packageBuilder = host.m_packageBuilder]_vars

\* A second ReloadInstance ran on a host whose vector got a second provider
\* after the first one: one call was made, on the provider of the first.
C29_Witness ==
  /\ host.reloads = 2
  /\ host.m_packageProviders = << <<"p1", "p2">> >>
  /\ Len(host.created) = 1
  /\ host.created[1].packageProvider = "p1"
  /\ host.builders = 1

\* C30, as stated: ReloadInstance never reads a null m_instanceSettings.
C30_SettingsSetWhenReloading == ~host.readUnset

=============================================================================
